---- MODULE Spec2Model ----
(***************************************************************************)
(* Model of the Kanidm Terraform provider: the API client                  *)
(* (internal/client) and the resource handlers built on it                 *)
(* (internal/provider).                                                    *)
(*                                                                         *)
(* Go strings are modelled as sequences of characters, so that the empty   *)
(* string is <<>> and the last character of a string can be inspected.     *)
(* A Go []string is a record [isNil, elems]: a nil slice and an empty      *)
(* non-nil slice are different values, as they are for `== nil`, for JSON  *)
(* encoding and for the plugin framework's value conversion.               *)
(***************************************************************************)
EXTENDS Integers, Sequences, FiniteSets, TLC

VARIABLES
    entry,      \* Attribute View under test: Entry.Attrs (key -> decoded value)
    viewKey,    \* the key the accessors are applied to
    ret,        \* result of the last operation: [op, err, val]
    srv,        \* the Kanidm server: OAuth2 clients, groups, secret counter
    hist,       \* the last three calls of the client API, oldest first
    createdAs,  \* kind each OAuth2 client name was last created as by the client
    secretReqs, \* methods of the _basic_secret requests the last operation sent
    tfOAuth2,   \* Terraform state of one kanidm_oauth2_basic resource
    tfGroup,    \* Terraform state of one kanidm_group resource
    tfPerson,   \* Terraform state of one kanidm_person resource
    call,       \* arguments of the last client call and the exchanges it made
    tfServiceAccount, \* Terraform state of one kanidm_service_account resource
    conc        \* client calls running concurrently and the requests the server received

vars == <<entry, viewKey, ret, srv, hist, createdAs, secretReqs, tfOAuth2, tfGroup, tfPerson, call,
         tfServiceAccount, conc>>

viewVars == <<entry, viewKey>>

apiVars == <<srv, hist, createdAs, secretReqs, call, conc>>

tfVars == <<tfOAuth2, tfGroup, tfPerson, tfServiceAccount>>

----------------------------------------------------------------------------
(* Bounds *)

MaxStrLen == 2      \* longest string drawn as an input
MaxListLen == 2     \* longest JSON array drawn as an attribute value
MaxSecrets == 3     \* secrets the server generates in one behaviour
MinStatus == 100    \* lowest HTTP status a response carries
MaxStatus == 599    \* highest HTTP status a response carries
MaxCalls == 1       \* calls of a behaviour that observes arguments and exchanges

----------------------------------------------------------------------------
(* Go values *)

\* v named once and used as x in F (a local variable assigned once)
Bind(v, F(_)) == F(v)

Chars == {"a", "/"}

Strs == UNION {[1..n -> Chars] : n \in 0..MaxStrLen}

EmptyStr == <<>>

\* []string
NilSlice == [isNil |-> TRUE, elems |-> <<>>]

Slice(elems) == [isNil |-> FALSE, elems |-> elems]

\* `any` as produced by encoding/json (string, []any, nil, float64), plus a
\* []string placed in the map by Go code
AnyString(s) == [t |-> "string", s |-> s, items |-> <<>>, strs |-> NilSlice]

AnyList(items) == [t |-> "[]any", s |-> <<>>, items |-> items, strs |-> NilSlice]

AnyStrings(sl) == [t |-> "[]string", s |-> <<>>, items |-> <<>>, strs |-> sl]

AnyNil == [t |-> "nil", s |-> <<>>, items |-> <<>>, strs |-> NilSlice]

AnyNumber == [t |-> "float64", s |-> <<>>, items |-> <<>>, strs |-> NilSlice]

ItemStrs == {<<>>, <<"a">>, <<"/">>}

ItemValues == {AnyString(s) : s \in ItemStrs} \cup {AnyNil, AnyNumber}

ListValues == UNION {[1..n -> ItemValues] : n \in 0..MaxListLen}

AttrValues ==
    {AnyString(s) : s \in Strs}
        \cup {AnyList(l) : l \in ListValues}
        \cup {AnyStrings(NilSlice), AnyStrings(Slice(<<>>)), AnyStrings(Slice(<<<<"a">>>>))}
        \cup {AnyNil, AnyNumber}

AttrKeys ==
    {"name", "oauth2_rs_name", "displayname", "oauth2_rs_origin",
     "oauth2_rs_origin_landing", "oauth2_rs_basic_secret",
     "description", "member", "mail"}

NoAttrs == [k \in {} |-> AnyNil]

----------------------------------------------------------------------------
(* Attribute View: Entry.GetString, Entry.GetStringSlice *)

GetString(attrs, key) ==
    IF key \notin DOMAIN attrs THEN EmptyStr
    ELSE LET val == attrs[key] IN
         CASE val.t = "string" -> val.s
           [] val.t = "[]any" ->
                IF Len(val.items) > 0 /\ val.items[1].t = "string"
                THEN val.items[1].s
                ELSE EmptyStr
           [] OTHER -> EmptyStr

\* the loop of GetStringSlice: append every item that is a string
RECURSIVE AppendStrings(_, _)
AppendStrings(result, items) ==
    IF items = <<>> THEN result
    ELSE AppendStrings(
            IF Head(items).t = "string" THEN Append(result, Head(items).s) ELSE result,
            Tail(items))

GetStringSlice_FirstOnly(attrs, key) ==
    IF key \notin DOMAIN attrs THEN NilSlice
    ELSE LET val == attrs[key] IN
         CASE val.t = "[]any" ->
                Slice(AppendStrings(<<>>, IF val.items = <<>> THEN <<>> ELSE <<val.items[1]>>))
           [] val.t = "[]string" -> val.strs
           [] val.t = "string" -> Slice(<<val.s>>)
           [] OTHER -> NilSlice

GetStringSlice_NoScalar(attrs, key) ==
    IF key \notin DOMAIN attrs THEN NilSlice
    ELSE LET val == attrs[key] IN
         CASE val.t = "[]any" -> Slice(AppendStrings(<<>>, val.items))
           [] val.t = "[]string" -> val.strs
           [] OTHER -> NilSlice

GetStringSlice(attrs, key) ==
    IF key \notin DOMAIN attrs THEN NilSlice
    ELSE LET val == attrs[key] IN
         CASE val.t = "[]any" -> Slice(AppendStrings(<<>>, val.items))
           [] val.t = "[]string" -> val.strs
           [] val.t = "string" -> Slice(<<val.s>>)
           [] OTHER -> NilSlice

----------------------------------------------------------------------------
(* Decoding of a fetched entry into the typed results *)

\* GetOAuth2Client: public iff the secret-bearing key is absent
IsPublic_ByValue(attrs) == GetString(attrs, "oauth2_rs_basic_secret") = EmptyStr

IsPublic(attrs) == "oauth2_rs_basic_secret" \notin DOMAIN attrs

\* GetOAuth2Client: remove one trailing slash
RECURSIVE NormalizeOrigin_TrimAll(_)
NormalizeOrigin_TrimAll(origin) ==
    IF Len(origin) > 0 /\ origin[Len(origin)] = "/"
    THEN NormalizeOrigin_TrimAll(SubSeq(origin, 1, Len(origin) - 1))
    ELSE origin

NormalizeOrigin(origin) ==
    IF Len(origin) > 0 /\ origin[Len(origin)] = "/"
    THEN SubSeq(origin, 1, Len(origin) - 1)
    ELSE origin

OAuth2ClientOfEntry(attrs) ==
    LET n1 == GetString(attrs, "name")
        clientName == IF n1 = EmptyStr THEN GetString(attrs, "oauth2_rs_name") ELSE n1
    IN [Name |-> clientName,
        DisplayName |-> GetString(attrs, "displayname"),
        Origin |-> NormalizeOrigin(GetString(attrs, "oauth2_rs_origin")),
        RedirectURIs |-> GetStringSlice(attrs, "oauth2_rs_origin_landing"),
        ClientID |-> clientName,
        ClientSecret |-> EmptyStr,
        IsPublic |-> IsPublic(attrs)]

\* GetGroup: members is never nil
GroupMembers_NoNilCheck(attrs) == GetStringSlice(attrs, "member")

GroupMembers(attrs) ==
    LET members == GetStringSlice(attrs, "member")
    IN IF members.isNil THEN Slice(<<>>) ELSE members

GroupOfEntry(attrs) ==
    [ID |-> GetString(attrs, "name"),
     Description |-> GetString(attrs, "description"),
     Members |-> GroupMembers(attrs)]

PersonOfEntry(attrs) ==
    [ID |-> GetString(attrs, "name"),
     DisplayName |-> GetString(attrs, "displayname"),
     Mail |-> GetStringSlice(attrs, "mail")]

----------------------------------------------------------------------------
(* Errors: the sentinels of client.go, generic API errors, transport and    *)
(* decode failures; wraps is the chain of fmt.Errorf("...: %w") contexts,    *)
(* outermost first.                                                         *)

NoErr == [kind |-> "nil", wraps |-> <<>>]

Err(kind) == [kind |-> kind, wraps |-> <<>>]

\* fmt.Errorf("...: %v", err): the text only
Wrap_TextOnly(ctx, err) == [kind |-> "error", wraps |-> <<ctx>> \o err.wraps]

Wrap(ctx, err) == [err EXCEPT !.wraps = <<ctx>> \o @]

IsErr(err) == err.kind # "nil"

\* errors.Is: %w wrapping keeps the sentinel
\* a comparison with the error itself, which a wrapped sentinel fails
ErrorsIs_Unwrapped(err, sentinel) == err.kind = sentinel /\ err.wraps = <<>>

ErrorsIs(err, sentinel) == err.kind = sentinel

----------------------------------------------------------------------------
(* HTTP messages *)

NoBody == [bt |-> "empty", s |-> <<>>, attrs |-> NoAttrs]

JsonNull == [bt |-> "null", s |-> <<>>, attrs |-> NoAttrs]

JsonString(s) == [bt |-> "string", s |-> s, attrs |-> NoAttrs]

JsonEntry(attrs) == [bt |-> "entry", s |-> <<>>, attrs |-> attrs]

Malformed == [bt |-> "malformed", s |-> <<>>, attrs |-> NoAttrs]

Path(ep, name, group) == [ep |-> ep, name |-> name, group |-> group]

\* request payloads: {"attrs": {...}} (CreateRequest, UpdateRequest), a bare
\* list, {"attrs": [...]}, or none
NoSlices == [k \in {} |-> NilSlice]

NoPayload == [pt |-> "none", attrs |-> NoSlices, list |-> NilSlice]

AttrsPayload(attrs) == [pt |-> "attrs", attrs |-> attrs, list |-> NilSlice]

ListPayload(list) == [pt |-> "list", attrs |-> NoSlices, list |-> list]

AttrListPayload(list) == [pt |-> "attrlist", attrs |-> NoSlices, list |-> list]

\* {"password": ...}
PasswordPayload(password) ==
    [pt |-> "password", attrs |-> NoSlices, list |-> NilSlice, password |-> password]

\* a *int64: nil, or a pointer to v
NilExpiry == [isNil |-> TRUE, v |-> 0]

\* {"label": ..., "expiry": ...}: expiry is JSON null for a nil pointer
TokenPayload(label, expiry) ==
    [pt |-> "token", attrs |-> NoSlices, list |-> NilSlice, label |-> label,
     expiry |-> IF expiry.isNil THEN "null" ELSE expiry.v]

----------------------------------------------------------------------------
(* The Kanidm server, as the client sees it through the API.                *)

OAuth2Names == {<<"c">>}

GroupNames == {<<"g">>}

ScopeGroups == {<<"g">>}

NoStored == [k \in {} |-> <<>>]

NoClient ==
    [exists |-> FALSE, kind |-> "none", secret |-> EmptyStr,
     attrs |-> NoStored, scopemap |-> NoStored]

NoGroup == [exists |-> FALSE, attrs |-> NoStored]

\* person accounts and service accounts
PersonNames == {<<"p">>}

ServiceAccountNames == {<<"v">>}

NoPerson == [exists |-> FALSE, attrs |-> NoStored, password |-> EmptyStr]

NoServiceAccount == [exists |-> FALSE, attrs |-> NoStored, tokens |-> {}]

\* the i-th secret the server generates: non-empty, different for each i
SecretStr(i) == [j \in 1..i |-> "s"]

InitSrv ==
    [oauth2 |-> [n \in OAuth2Names |-> NoClient],
     group |-> [g \in GroupNames |-> NoGroup],
     person |-> [p \in PersonNames |-> NoPerson],
     service_account |-> [v \in ServiceAccountNames |-> NoServiceAccount],
     nextSecret |-> 1]

\* the server keeps an origin with a trailing slash
StoredOrigin(origin) ==
    IF Len(origin) > 0 /\ origin[Len(origin)] = "/" THEN origin
    ELSE Append(origin, "/")

\* attributes of a PATCH or create payload as the server stores them
StoreAttr(key, sl) ==
    IF key = "oauth2_rs_origin"
    THEN [i \in 1..Len(sl.elems) |-> StoredOrigin(sl.elems[i])]
    ELSE sl.elems

MergeAttrs(stored, attrs) ==
    [k \in (DOMAIN stored) \cup (DOMAIN attrs) |->
        IF k \in DOMAIN attrs THEN StoreAttr(k, attrs[k]) ELSE stored[k]]

\* an entry as returned by GET: every attribute is a list of strings; a basic
\* client carries the key oauth2_rs_basic_secret with its value hidden
AsAnyList(strs) == AnyList([i \in 1..Len(strs) |-> AnyString(strs[i])])

OAuth2EntryAttrs(c) ==
    [k \in (DOMAIN c.attrs) \cup (IF c.kind = "basic" THEN {"oauth2_rs_basic_secret"} ELSE {}) |->
        IF k \in DOMAIN c.attrs THEN AsAnyList(c.attrs[k]) ELSE AnyList(<<>>)]

GroupEntryAttrs(g) == [k \in DOMAIN g.attrs |-> AsAnyList(g.attrs[k])]

Reply(s, status, body) == [srv |-> s, status |-> status, body |-> body]

ServeOAuth2Create(s, kind, payload) ==
    LET name == payload.attrs["name"].elems[1] IN
    IF name \notin OAuth2Names THEN Reply(s, 400, Malformed)
    ELSE IF s.oauth2[name].exists THEN Reply(s, 409, Malformed)
    ELSE LET c == [exists |-> TRUE, kind |-> kind,
                   secret |-> IF kind = "basic" THEN SecretStr(s.nextSecret) ELSE EmptyStr,
                   attrs |-> MergeAttrs(NoStored, payload.attrs),
                   scopemap |-> NoStored]
         IN Reply([s EXCEPT !.oauth2[name] = c,
                            !.nextSecret = IF kind = "basic" THEN @ + 1 ELSE @],
                  200, JsonNull)

ServeOAuth2(s, method, path, payload) ==
    LET c == s.oauth2[path.name] IN
    IF ~c.exists THEN Reply(s, 404, NoBody)
    ELSE CASE method = "GET" -> Reply(s, 200, JsonEntry(OAuth2EntryAttrs(c)))
           [] method = "PATCH" ->
                Reply([s EXCEPT !.oauth2[path.name].attrs = MergeAttrs(@, payload.attrs)],
                      200, JsonNull)
           [] method = "DELETE" -> Reply([s EXCEPT !.oauth2[path.name] = NoClient], 200, JsonNull)
           [] OTHER -> Reply(s, 405, NoBody)

ServeBasicSecret(s, method, path) ==
    LET c == s.oauth2[path.name] IN
    IF ~c.exists THEN Reply(s, 404, NoBody)
    ELSE IF c.kind # "basic" THEN Reply(s, 400, Malformed)
    ELSE CASE method = "GET" -> Reply(s, 200, JsonString(c.secret))
           [] method = "POST" ->
                Reply([s EXCEPT !.oauth2[path.name].secret = SecretStr(s.nextSecret),
                                !.nextSecret = @ + 1],
                      200, JsonString(SecretStr(s.nextSecret)))
           [] OTHER -> Reply(s, 405, NoBody)

ServeScopeMap(s, method, path, payload) ==
    LET c == s.oauth2[path.name] IN
    IF ~c.exists THEN Reply(s, 404, NoBody)
    ELSE CASE method = "POST" ->
                Reply([s EXCEPT !.oauth2[path.name].scopemap =
                          [g \in (DOMAIN @) \cup {path.group} |->
                              IF g = path.group THEN payload.list.elems ELSE @[g]]],
                      200, JsonNull)
           [] method = "DELETE" ->
                Reply([s EXCEPT !.oauth2[path.name].scopemap =
                          [g \in (DOMAIN @) \ {path.group} |-> @[g]]],
                      200, JsonNull)
           [] OTHER -> Reply(s, 405, NoBody)

\* an attribute set to the empty list is removed from a group
PurgeEmpty(stored) == [k \in {x \in DOMAIN stored : stored[x] # <<>>} |-> stored[k]]

StoredMembers(g) == IF "member" \in DOMAIN g.attrs THEN g.attrs["member"] ELSE <<>>

WithMembers(g, members) ==
    [g EXCEPT !.attrs = PurgeEmpty([k \in (DOMAIN @) \cup {"member"} |->
                                       IF k = "member" THEN members ELSE @[k]])]

InSeq(x, seq) == \E i \in DOMAIN seq : seq[i] = x

AddMembers(stored, added) ==
    stored \o SelectSeq(added, LAMBDA m : ~InSeq(m, stored))

RemoveMembers(stored, removed) == SelectSeq(stored, LAMBDA m : ~InSeq(m, removed))

\* the API token the server mints: non-empty
TokenStr == <<"t">>

JsonToken(token) == [bt |-> "token", s |-> token, attrs |-> NoAttrs]

PersonEntryAttrs(p) == [k \in DOMAIN p.attrs |-> AsAnyList(p.attrs[k])]

ServePersonCreate(s, payload) ==
    LET name == payload.attrs["name"].elems[1] IN
    IF name \notin PersonNames THEN Reply(s, 400, Malformed)
    ELSE IF s.person[name].exists THEN Reply(s, 409, Malformed)
    ELSE Reply([s EXCEPT !.person[name] =
                   [exists |-> TRUE, attrs |-> PurgeEmpty(MergeAttrs(NoStored, payload.attrs)),
                    password |-> EmptyStr]],
               200, JsonNull)

ServePerson(s, method, path, payload) ==
    IF path.name \notin PersonNames \/ ~s.person[path.name].exists THEN Reply(s, 404, NoBody)
    ELSE CASE method = "GET" -> Reply(s, 200, JsonEntry(PersonEntryAttrs(s.person[path.name])))
           [] method = "PATCH" ->
                Reply([s EXCEPT !.person[path.name].attrs = PurgeEmpty(MergeAttrs(@, payload.attrs))],
                      200, JsonNull)
           [] method = "DELETE" -> Reply([s EXCEPT !.person[path.name] = NoPerson], 200, JsonNull)
           [] OTHER -> Reply(s, 405, NoBody)

ServePersonCredential(s, method, path, payload) ==
    IF path.name \notin PersonNames \/ ~s.person[path.name].exists THEN Reply(s, 404, NoBody)
    ELSE IF method = "POST"
         THEN Reply([s EXCEPT !.person[path.name].password = payload.password], 200, JsonNull)
         ELSE Reply(s, 405, NoBody)

\* the one-time credential reset token the server mints: non-empty
ResetTokenStr == <<"r">>

ServeCredentialResetToken(s, method, path) ==
    IF path.name \notin PersonNames \/ ~s.person[path.name].exists THEN Reply(s, 404, NoBody)
    ELSE IF method = "GET" THEN Reply(s, 200, JsonToken(ResetTokenStr))
         ELSE Reply(s, 405, NoBody)

ServeServiceAccountCreate(s, payload) ==
    LET name == payload.attrs["name"].elems[1] IN
    IF name \notin ServiceAccountNames THEN Reply(s, 400, Malformed)
    ELSE IF s.service_account[name].exists THEN Reply(s, 409, Malformed)
    ELSE Reply([s EXCEPT !.service_account[name] =
                   [exists |-> TRUE, attrs |-> PurgeEmpty(MergeAttrs(NoStored, payload.attrs)),
                    tokens |-> {}]],
               200, JsonNull)

ServeServiceAccount(s, method, path, payload) ==
    IF path.name \notin ServiceAccountNames \/ ~s.service_account[path.name].exists
    THEN Reply(s, 404, NoBody)
    ELSE CASE method = "GET" ->
                Reply(s, 200, JsonEntry(PersonEntryAttrs(s.service_account[path.name])))
           [] method = "PATCH" ->
                Reply([s EXCEPT !.service_account[path.name].attrs =
                          PurgeEmpty(MergeAttrs(@, payload.attrs))],
                      200, JsonNull)
           [] method = "DELETE" ->
                Reply([s EXCEPT !.service_account[path.name] = NoServiceAccount], 200, JsonNull)
           [] OTHER -> Reply(s, 405, NoBody)

\* minting a token records its label and answers {"token": ...}
ServeApiToken(s, method, path, payload) ==
    IF path.name \notin ServiceAccountNames \/ ~s.service_account[path.name].exists
    THEN Reply(s, 404, NoBody)
    ELSE IF method = "POST"
         THEN Reply([s EXCEPT !.service_account[path.name].tokens = @ \cup {payload.label}],
                    200, JsonToken(TokenStr))
         ELSE Reply(s, 405, NoBody)

ServeGroupCreate(s, payload) ==
    LET name == payload.attrs["name"].elems[1] IN
    IF name \notin GroupNames THEN Reply(s, 400, Malformed)
    ELSE IF s.group[name].exists THEN Reply(s, 409, Malformed)
    ELSE Reply([s EXCEPT !.group[name] =
                   [exists |-> TRUE, attrs |-> PurgeEmpty(MergeAttrs(NoStored, payload.attrs))]],
               200, JsonNull)

ServeGroup(s, method, path, payload) ==
    IF path.name \notin GroupNames \/ ~s.group[path.name].exists THEN Reply(s, 404, NoBody)
    ELSE CASE method = "GET" -> Reply(s, 200, JsonEntry(GroupEntryAttrs(s.group[path.name])))
           [] method = "PATCH" ->
                Reply([s EXCEPT !.group[path.name].attrs = PurgeEmpty(MergeAttrs(@, payload.attrs))],
                      200, JsonNull)
           [] method = "DELETE" -> Reply([s EXCEPT !.group[path.name] = NoGroup], 200, JsonNull)
           [] OTHER -> Reply(s, 405, NoBody)

ServeGroupMember(s, method, path, payload) ==
    IF path.name \notin GroupNames \/ ~s.group[path.name].exists THEN Reply(s, 404, NoBody)
    ELSE LET g == s.group[path.name] IN
         CASE method = "POST" ->
                Reply([s EXCEPT !.group[path.name] =
                          WithMembers(g, AddMembers(StoredMembers(g), payload.list.elems))],
                      200, JsonNull)
           [] method = "DELETE" ->
                Reply([s EXCEPT !.group[path.name] =
                          WithMembers(g, RemoveMembers(StoredMembers(g), payload.list.elems))],
                      200, JsonNull)
           [] OTHER -> Reply(s, 405, NoBody)

Serve(s, method, path, payload) ==
    CASE path.ep = "/v1/oauth2/_basic" /\ method = "POST" -> ServeOAuth2Create(s, "basic", payload)
      [] path.ep = "/v1/oauth2/_public" /\ method = "POST" -> ServeOAuth2Create(s, "public", payload)
      [] path.ep = "/v1/oauth2/{name}" -> ServeOAuth2(s, method, path, payload)
      [] path.ep = "/v1/oauth2/{name}/_basic_secret" -> ServeBasicSecret(s, method, path)
      [] path.ep = "/v1/oauth2/{name}/_scopemap/{group}" -> ServeScopeMap(s, method, path, payload)
      [] path.ep = "/v1/group" /\ method = "POST" -> ServeGroupCreate(s, payload)
      [] path.ep = "/v1/group/{id}" -> ServeGroup(s, method, path, payload)
      [] path.ep = "/v1/group/{id}/_attr/member" -> ServeGroupMember(s, method, path, payload)
      [] path.ep = "/v1/person" /\ method = "POST" -> ServePersonCreate(s, payload)
      [] path.ep = "/v1/person/{id}" -> ServePerson(s, method, path, payload)
      [] path.ep = "/v1/person/{id}/_credential/_update_intent" ->
            ServePersonCredential(s, method, path, payload)
      [] path.ep = "/v1/person/{id}/_credential/_update_intent/{ttl}" ->
            ServeCredentialResetToken(s, method, path)
      [] path.ep = "/v1/service_account" /\ method = "POST" -> ServeServiceAccountCreate(s, payload)
      [] path.ep = "/v1/service_account/{id}" -> ServeServiceAccount(s, method, path, payload)
      [] path.ep = "/v1/service_account/{id}/_api_token" -> ServeApiToken(s, method, path, payload)
      [] OTHER -> Reply(s, 404, NoBody)

\* what one exchange can do besides the server's own answer: the request is
\* not delivered, an error status is answered without the request being
\* carried out, or (AnyModes) the request is carried out and answered 200
\* with JSON null or an empty JSON string as the body
ErrorModes == {"ok", "transport", "403", "500"}

AnyModes == ErrorModes \cup {"200:null", "200:empty-string"}

Respond(s, method, path, payload, mode) ==
    Bind(Serve(s, method, path, payload),
         LAMBDA served :
    CASE mode = "ok" -> served
      [] mode = "401" -> Reply(s, 401, NoBody)
      [] mode = "403" -> Reply(s, 403, NoBody)
      [] mode = "404" -> Reply(s, 404, NoBody)
      [] mode = "500" -> Reply(s, 500, Malformed)
      [] mode = "200:null" -> Reply(served.srv, 200, JsonNull)
      [] mode = "200:empty-string" -> Reply(served.srv, 200, JsonString(EmptyStr))
      [] mode = "200:malformed" -> Reply(served.srv, 200, Malformed))

----------------------------------------------------------------------------
(* Transport: doRequest, checkResponse, decodeResponse.                     *)
(* A world w threads the server and the requests sent through the calls of  *)
(* one operation; a fault [k, m] gives the k-th exchange of the operation    *)
(* the mode m, every other exchange the server's own answer.                *)

World(s) == [srv |-> s, log |-> <<>>]

NoFault == [k |-> 0, m |-> "ok"]

Faults(modes, n) == {NoFault} \cup {[k |-> k, m |-> m] : k \in 1..n, m \in modes \ {"ok"}}

\* the text of the error checkResponse returns: the format and what
\* fmt.Errorf fills in (code 0 and an empty body where it fills in nothing)
ErrorText(format, code, body) == [format |-> format, code |-> code, body |-> body]

checkResponseText(status, body) ==
    IF status >= 200 /\ status < 300 THEN ErrorText("", 0, EmptyStr)
    ELSE CASE status = 404 -> ErrorText("resource not found", 0, EmptyStr)
           [] status = 401 -> ErrorText("unauthorized", 0, EmptyStr)
           [] status = 403 -> ErrorText("forbidden", 0, EmptyStr)
           [] OTHER -> IF Len(body) > 0
                       THEN ErrorText("API error (HTTP %d): %s", status, body)
                       ELSE ErrorText("API error (HTTP %d)", status, EmptyStr)

checkResponse_ForbiddenGeneric(status) ==
    IF status >= 200 /\ status < 300 THEN NoErr
    ELSE CASE status = 404 -> Err("ErrNotFound")
           [] status = 401 -> Err("ErrUnauthorized")
           [] OTHER -> Err("API error")

checkResponse(status) ==
    IF status >= 200 /\ status < 300 THEN NoErr
    ELSE CASE status = 404 -> Err("ErrNotFound")
           [] status = 401 -> Err("ErrUnauthorized")
           [] status = 403 -> Err("ErrForbidden")
           [] OTHER -> Err("API error")

\* the response body of exchange i is closed
CloseBody_Skip(w, i) == w

CloseBody(w, i) == [w EXCEPT !.log[i].body = "closed"]

\* one request and what came back: status 0 and no body when no response arrived
Exchange(method, path, payload, status, reply) ==
    [method |-> method, path |-> path, payload |-> payload, status |-> status,
     reply |-> reply, body |-> IF status = 0 THEN "none" ELSE "open"]

doRequest(w, ft, method, path, payload) ==
    LET i == Len(w.log) + 1
        mode == IF ft.k = i THEN ft.m ELSE "ok"
    IN IF mode = "transport"
       THEN [w |-> [w EXCEPT !.log = Append(w.log, Exchange(method, path, payload, 0, NoBody))],
             err |-> Wrap("execute request", Err("transport")),
             body |-> NoBody, resp |-> i]
       ELSE Bind(Respond(w.srv, method, path, payload, mode),
                 LAMBDA r :
            Bind([srv |-> r.srv, log |-> Append(w.log, Exchange(method, path, payload, r.status,
                                                      r.body))],
                 LAMBDA got :
            IF IsErr(checkResponse(r.status))
               THEN [w |-> CloseBody(CloseBody(got, i), i), err |-> checkResponse(r.status),
                     body |-> r.body, resp |-> i]
               ELSE [w |-> got, err |-> NoErr, body |-> r.body, resp |-> i]))

\* decodeResponse into a string: JSON null leaves the zero value
DecodeString(body) ==
    CASE body.bt = "string" -> [err |-> NoErr, val |-> body.s]
      [] body.bt = "null" -> [err |-> NoErr, val |-> EmptyStr]
      [] OTHER -> [err |-> Wrap("decode response", Err("decode")), val |-> EmptyStr]

\* decodeResponse into an Entry: JSON null, or an object without "attrs",
\* leaves Attrs nil
DecodeEntry(body) ==
    CASE body.bt = "entry" -> [err |-> NoErr, val |-> body.attrs]
      [] body.bt = "null" -> [err |-> NoErr, val |-> NoAttrs]
      [] body.bt = "token" -> [err |-> NoErr, val |-> NoAttrs]
      [] OTHER -> [err |-> Wrap("decode response", Err("decode")), val |-> NoAttrs]

\* decodeResponse into struct{Token string}: JSON null, or an object without
\* "token", leaves the zero value
DecodeToken(body) ==
    CASE body.bt = "token" -> [err |-> NoErr, val |-> body.s]
      [] body.bt = "null" -> [err |-> NoErr, val |-> EmptyStr]
      [] body.bt = "entry" -> [err |-> NoErr, val |-> EmptyStr]
      [] OTHER -> [err |-> Wrap("decode response", Err("decode")), val |-> EmptyStr]

Result(w, err, val) == [w |-> w, err |-> err, val |-> val]

----------------------------------------------------------------------------
(* Resource operations: OAuth2 clients (oauth2.go) *)

NoOAuth2Client ==
    [Name |-> EmptyStr, DisplayName |-> EmptyStr, Origin |-> EmptyStr,
     RedirectURIs |-> NilSlice, ClientID |-> EmptyStr, ClientSecret |-> EmptyStr,
     IsPublic |-> FALSE]

SecretMethod_Post == "POST"

SecretMethod == "GET"

GetOAuth2BasicSecret(w, ft, name) ==
    Bind(doRequest(w, ft, SecretMethod, Path("/v1/oauth2/{name}/_basic_secret", name, EmptyStr),
                       NoPayload),
         LAMBDA r :
    IF IsErr(r.err) THEN Result(r.w, Wrap("get oauth2 basic secret", r.err), EmptyStr)
       ELSE LET d == DecodeString(r.body)
            IN IF IsErr(d.err) THEN Result(CloseBody(r.w, r.resp), d.err, EmptyStr)
               ELSE Result(CloseBody(r.w, r.resp), NoErr, d.val))

RegenerateMethod_Get == "GET"

RegenerateMethod == "POST"

RegenerateOAuth2BasicSecret(w, ft, name) ==
    Bind(doRequest(w, ft, RegenerateMethod, Path("/v1/oauth2/{name}/_basic_secret", name, EmptyStr),
                       NoPayload),
         LAMBDA r :
    IF IsErr(r.err) THEN Result(r.w, Wrap("regenerate oauth2 basic secret", r.err), EmptyStr)
       ELSE LET d == DecodeString(r.body)
            IN IF IsErr(d.err) THEN Result(CloseBody(r.w, r.resp), d.err, EmptyStr)
               ELSE Result(CloseBody(r.w, r.resp), NoErr, d.val))

CreateAttrs(name, displayName, origin) ==
    [k \in {"name", "displayname", "oauth2_rs_origin_landing"} |->
        CASE k = "name" -> Slice(<<name>>)
          [] k = "displayname" -> Slice(<<displayName>>)
          [] k = "oauth2_rs_origin_landing" -> Slice(<<origin>>)]

CreateOAuth2BasicClient(w, ft, name, displayName, origin) ==
    Bind(doRequest(w, ft, "POST", Path("/v1/oauth2/_basic", EmptyStr, EmptyStr),
                       AttrsPayload(CreateAttrs(name, displayName, origin))),
         LAMBDA r :
    IF IsErr(r.err) THEN Result(r.w, Wrap("create oauth2 basic client", r.err), NoOAuth2Client)
       ELSE Bind(GetOAuth2BasicSecret(r.w, ft, name),
                 LAMBDA g :
            IF IsErr(g.err)
               THEN Result(CloseBody(g.w, r.resp), Wrap("retrieve client secret", g.err),
                           NoOAuth2Client)
               ELSE Result(CloseBody(g.w, r.resp), NoErr,
                           [Name |-> name, DisplayName |-> displayName, Origin |-> origin,
                            RedirectURIs |-> NilSlice, ClientID |-> name,
                            ClientSecret |-> g.val, IsPublic |-> FALSE])))

PublicCreateEndpoint_Basic == "/v1/oauth2/_basic"

PublicCreateEndpoint == "/v1/oauth2/_public"

CreateOAuth2PublicClient(w, ft, name, displayName, origin) ==
    Bind(doRequest(w, ft, "POST", Path(PublicCreateEndpoint, EmptyStr, EmptyStr),
                       AttrsPayload(CreateAttrs(name, displayName, origin))),
         LAMBDA r :
    IF IsErr(r.err) THEN Result(r.w, Wrap("create oauth2 public client", r.err), NoOAuth2Client)
       ELSE Result(CloseBody(r.w, r.resp), NoErr,
                   [Name |-> name, DisplayName |-> displayName, Origin |-> origin,
                    RedirectURIs |-> NilSlice, ClientID |-> name,
                    ClientSecret |-> EmptyStr, IsPublic |-> TRUE]))

GetOAuth2Client(w, ft, name) ==
    Bind(doRequest(w, ft, "GET", Path("/v1/oauth2/{name}", name, EmptyStr), NoPayload),
         LAMBDA r :
    IF IsErr(r.err) THEN Result(r.w, Wrap("get oauth2 client", r.err), NoOAuth2Client)
       ELSE LET d == DecodeEntry(r.body)
            IN IF IsErr(d.err) THEN Result(CloseBody(r.w, r.resp), d.err, NoOAuth2Client)
               ELSE Result(CloseBody(r.w, r.resp), NoErr, OAuth2ClientOfEntry(d.val)))

\* the attrs map UpdateOAuth2Client builds: a field is sent only when it is
\* non-empty (redirectURIs: non-nil)
UpdateOAuth2Attrs(displayName, origin, redirectURIs) ==
    [k \in (IF displayName # EmptyStr THEN {"displayname"} ELSE {})
            \cup (IF origin # EmptyStr THEN {"oauth2_rs_origin"} ELSE {})
            \cup (IF ~redirectURIs.isNil THEN {"oauth2_rs_origin_landing"} ELSE {}) |->
        CASE k = "displayname" -> Slice(<<displayName>>)
          [] k = "oauth2_rs_origin" -> Slice(<<origin>>)
          [] k = "oauth2_rs_origin_landing" -> redirectURIs]

UpdateOAuth2Client(w, ft, name, displayName, origin, redirectURIs) ==
    Bind(doRequest(w, ft, "PATCH", Path("/v1/oauth2/{name}", name, EmptyStr),
                       AttrsPayload(UpdateOAuth2Attrs(displayName, origin, redirectURIs))),
         LAMBDA r :
    IF IsErr(r.err) THEN Result(r.w, Wrap("update oauth2 client", r.err), EmptyStr)
       ELSE Result(CloseBody(r.w, r.resp), NoErr, EmptyStr))

DeleteOAuth2Client(w, ft, name) ==
    Bind(doRequest(w, ft, "DELETE", Path("/v1/oauth2/{name}", name, EmptyStr), NoPayload),
         LAMBDA r :
    IF IsErr(r.err) THEN Result(r.w, Wrap("delete oauth2 client", r.err), EmptyStr)
       ELSE Result(CloseBody(r.w, r.resp), NoErr, EmptyStr))

SetOAuth2ScopeMap_OneGroup(w, ft, rsName, groupName, scopes) ==
    Bind(doRequest(w, ft, "POST", Path("/v1/oauth2/{name}/_scopemap/{group}", rsName, <<"g">>),
                       ListPayload(scopes)),
         LAMBDA r :
    IF IsErr(r.err) THEN Result(r.w, Wrap("set oauth2 scope map", r.err), EmptyStr)
       ELSE Result(CloseBody(r.w, r.resp), NoErr, EmptyStr))

SetOAuth2ScopeMap(w, ft, rsName, groupName, scopes) ==
    Bind(doRequest(w, ft, "POST", Path("/v1/oauth2/{name}/_scopemap/{group}", rsName, groupName),
                       ListPayload(scopes)),
         LAMBDA r :
    IF IsErr(r.err) THEN Result(r.w, Wrap("set oauth2 scope map", r.err), EmptyStr)
       ELSE Result(CloseBody(r.w, r.resp), NoErr, EmptyStr))

DeleteOAuth2ScopeMap(w, ft, rsName, groupName) ==
    Bind(doRequest(w, ft, "DELETE", Path("/v1/oauth2/{name}/_scopemap/{group}", rsName, groupName),
                       NoPayload),
         LAMBDA r :
    IF IsErr(r.err) THEN Result(r.w, Wrap("delete oauth2 scope map", r.err), EmptyStr)
       ELSE Result(CloseBody(r.w, r.resp), NoErr, EmptyStr))

NoGroupResult == [ID |-> EmptyStr, Description |-> EmptyStr, Members |-> NilSlice]

CreateGroupAttrs_NameOnly(name, description) == [k \in {"name"} |-> Slice(<<name>>)]

CreateGroupAttrs(name, description) ==
    [k \in {"name"} \cup (IF description # EmptyStr THEN {"description"} ELSE {}) |->
        IF k = "name" THEN Slice(<<name>>) ELSE Slice(<<description>>)]

CreateGroup(w, ft, name, description) ==
    Bind(doRequest(w, ft, "POST", Path("/v1/group", EmptyStr, EmptyStr),
                       AttrsPayload(CreateGroupAttrs(name, description))),
         LAMBDA r :
    IF IsErr(r.err) THEN Result(r.w, Wrap("create group", r.err), NoGroupResult)
       ELSE Result(CloseBody(r.w, r.resp), NoErr, [ID |-> name, Description |-> description, Members |-> NilSlice]))

GetGroup(w, ft, id) ==
    Bind(doRequest(w, ft, "GET", Path("/v1/group/{id}", id, EmptyStr), NoPayload),
         LAMBDA r :
    IF IsErr(r.err) THEN Result(r.w, Wrap("get group", r.err), NoGroupResult)
       ELSE LET d == DecodeEntry(r.body)
            IN IF IsErr(d.err) THEN Result(CloseBody(r.w, r.resp), d.err, NoGroupResult)
               ELSE Result(CloseBody(r.w, r.resp), NoErr, GroupOfEntry(d.val)))

\* an attrs map that carries member only when there is a member to send
UpdateGroupAttrs_SkipEmpty(description, members) ==
    [k \in (IF description # EmptyStr THEN {"description"} ELSE {})
            \cup (IF Len(members.elems) > 0 THEN {"member"} ELSE {}) |->
        IF k = "description" THEN Slice(<<description>>) ELSE members]

\* the attrs map UpdateGroup builds: description when non-empty, member when
\* the slice is non-nil
UpdateGroupAttrs(description, members) ==
    [k \in (IF description # EmptyStr THEN {"description"} ELSE {})
            \cup (IF ~members.isNil THEN {"member"} ELSE {}) |->
        IF k = "description" THEN Slice(<<description>>) ELSE members]

UpdateGroup(w, ft, id, description, members) ==
    Bind(doRequest(w, ft, "PATCH", Path("/v1/group/{id}", id, EmptyStr),
                       AttrsPayload(UpdateGroupAttrs(description, members))),
         LAMBDA r :
    IF IsErr(r.err) THEN Result(r.w, Wrap("update group", r.err), EmptyStr)
       ELSE Result(CloseBody(r.w, r.resp), NoErr, EmptyStr))

DeleteGroup(w, ft, id) ==
    Bind(doRequest(w, ft, "DELETE", Path("/v1/group/{id}", id, EmptyStr), NoPayload),
         LAMBDA r :
    IF IsErr(r.err) THEN Result(r.w, Wrap("delete group", r.err), EmptyStr)
       ELSE Result(CloseBody(r.w, r.resp), NoErr, EmptyStr))

AddGroupMembers(w, ft, groupID, memberIDs) ==
    Bind(doRequest(w, ft, "POST", Path("/v1/group/{id}/_attr/member", groupID, EmptyStr),
                       AttrListPayload(memberIDs)),
         LAMBDA r :
    IF IsErr(r.err) THEN Result(r.w, Wrap("add group members", r.err), EmptyStr)
       ELSE Result(CloseBody(r.w, r.resp), NoErr, EmptyStr))

RemoveGroupMembers(w, ft, groupID, memberIDs) ==
    Bind(doRequest(w, ft, "DELETE", Path("/v1/group/{id}/_attr/member", groupID, EmptyStr),
                       AttrListPayload(memberIDs)),
         LAMBDA r :
    IF IsErr(r.err) THEN Result(r.w, Wrap("remove group members", r.err), EmptyStr)
       ELSE Result(CloseBody(r.w, r.resp), NoErr, EmptyStr))

----------------------------------------------------------------------------
(* Person operations (person.go) *)

NoPersonResult == [ID |-> EmptyStr, DisplayName |-> EmptyStr, Mail |-> NilSlice]

CreatePersonAttrs(name, displayName) ==
    [k \in {"name", "displayname"} |->
        IF k = "name" THEN Slice(<<name>>) ELSE Slice(<<displayName>>)]

CreatePerson(w, ft, name, displayName) ==
    Bind(doRequest(w, ft, "POST", Path("/v1/person", EmptyStr, EmptyStr),
                   AttrsPayload(CreatePersonAttrs(name, displayName))),
         LAMBDA r :
    IF IsErr(r.err) THEN Result(r.w, Wrap("create person", r.err), NoPersonResult)
       ELSE Result(CloseBody(r.w, r.resp), NoErr,
                   [ID |-> name, DisplayName |-> displayName, Mail |-> NilSlice]))

GetPerson(w, ft, id) ==
    Bind(doRequest(w, ft, "GET", Path("/v1/person/{id}", id, EmptyStr), NoPayload),
         LAMBDA r :
    IF IsErr(r.err) THEN Result(r.w, Wrap("get person", r.err), NoPersonResult)
       ELSE LET d == DecodeEntry(r.body)
            IN IF IsErr(d.err) THEN Result(CloseBody(r.w, r.resp), d.err, NoPersonResult)
               ELSE Result(CloseBody(r.w, r.resp), NoErr, PersonOfEntry(d.val)))

UpdatePersonAttrs_Always(displayName, mail) ==
    [k \in {"displayname", "mail"} |->
        IF k = "displayname" THEN Slice(<<displayName>>) ELSE Slice(mail.elems)]

UpdatePersonAttrs(displayName, mail) ==
    [k \in (IF displayName # EmptyStr THEN {"displayname"} ELSE {})
            \cup (IF ~mail.isNil THEN {"mail"} ELSE {}) |->
        IF k = "displayname" THEN Slice(<<displayName>>) ELSE mail]

UpdatePerson(w, ft, id, displayName, mail) ==
    Bind(doRequest(w, ft, "PATCH", Path("/v1/person/{id}", id, EmptyStr),
                   AttrsPayload(UpdatePersonAttrs(displayName, mail))),
         LAMBDA r :
    IF IsErr(r.err) THEN Result(r.w, Wrap("update person", r.err), EmptyStr)
       ELSE Result(CloseBody(r.w, r.resp), NoErr, EmptyStr))

DeletePerson(w, ft, id) ==
    Bind(doRequest(w, ft, "DELETE", Path("/v1/person/{id}", id, EmptyStr), NoPayload),
         LAMBDA r :
    IF IsErr(r.err) THEN Result(r.w, Wrap("delete person", r.err), EmptyStr)
       ELSE Result(CloseBody(r.w, r.resp), NoErr, EmptyStr))

SetPersonPassword(w, ft, id, password) ==
    Bind(doRequest(w, ft, "POST",
                   Path("/v1/person/{id}/_credential/_update_intent", id, EmptyStr),
                   PasswordPayload(password)),
         LAMBDA r :
    IF IsErr(r.err) THEN Result(r.w, Wrap("set person password", r.err), EmptyStr)
       ELSE Result(CloseBody(r.w, r.resp), NoErr, EmptyStr))

\* called by the person resource; its body is not part of the client sources
CreatePersonCredentialResetToken(w, ft, id, ttl) ==
    Bind(doRequest(w, ft, "GET",
                   Path("/v1/person/{id}/_credential/_update_intent/{ttl}", id, EmptyStr),
                   NoPayload),
         LAMBDA r :
    IF IsErr(r.err)
       THEN Result(r.w, Wrap("create person credential reset token", r.err), EmptyStr)
       ELSE LET d == DecodeToken(r.body)
            IN IF IsErr(d.err) THEN Result(CloseBody(r.w, r.resp), d.err, EmptyStr)
               ELSE Result(CloseBody(r.w, r.resp), NoErr, d.val))

----------------------------------------------------------------------------
(* Service account operations (service_account.go) *)

NoServiceAccountResult_Partial == [ID |-> <<"v">>, APIToken |-> EmptyStr]

NoServiceAccountResult == [ID |-> EmptyStr, APIToken |-> EmptyStr]

GenerateServiceAccountToken(w, ft, id, label, expiry) ==
    Bind(doRequest(w, ft, "POST", Path("/v1/service_account/{id}/_api_token", id, EmptyStr),
                   TokenPayload(label, expiry)),
         LAMBDA r :
    IF IsErr(r.err) THEN Result(r.w, Wrap("generate api token", r.err), EmptyStr)
       ELSE LET d == DecodeToken(r.body)
            IN IF IsErr(d.err) THEN Result(CloseBody(r.w, r.resp), d.err, EmptyStr)
               ELSE Result(CloseBody(r.w, r.resp), NoErr, d.val))

CreateServiceAccount(w, ft, name) ==
    Bind(doRequest(w, ft, "POST", Path("/v1/service_account", EmptyStr, EmptyStr),
                   AttrsPayload([k \in {"name"} |-> Slice(<<name>>)])),
         LAMBDA r :
    IF IsErr(r.err)
       THEN Result(r.w, Wrap("create service account", r.err), NoServiceAccountResult)
       ELSE Bind(GenerateServiceAccountToken(r.w, ft, name, "terraform-managed", NilExpiry),
                 LAMBDA g :
            IF IsErr(g.err)
               THEN Result(CloseBody(g.w, r.resp), Wrap("generate initial token", g.err),
                           NoServiceAccountResult)
               ELSE Result(CloseBody(g.w, r.resp), NoErr, [ID |-> name, APIToken |-> g.val])))

GetServiceAccount(w, ft, id) ==
    Bind(doRequest(w, ft, "GET", Path("/v1/service_account/{id}", id, EmptyStr), NoPayload),
         LAMBDA r :
    IF IsErr(r.err)
       THEN Result(r.w, Wrap("get service account", r.err), NoServiceAccountResult)
       ELSE LET d == DecodeEntry(r.body)
            IN IF IsErr(d.err)
               THEN Result(CloseBody(r.w, r.resp), d.err, NoServiceAccountResult)
               ELSE Result(CloseBody(r.w, r.resp), NoErr,
                           [ID |-> GetString(d.val, "name"), APIToken |-> EmptyStr]))

UpdateServiceAccountAttrs(displayName) ==
    [k \in (IF displayName # EmptyStr THEN {"displayname"} ELSE {}) |-> Slice(<<displayName>>)]

UpdateServiceAccount(w, ft, id, displayName) ==
    Bind(doRequest(w, ft, "PATCH", Path("/v1/service_account/{id}", id, EmptyStr),
                   AttrsPayload(UpdateServiceAccountAttrs(displayName))),
         LAMBDA r :
    IF IsErr(r.err) THEN Result(r.w, Wrap("update service account", r.err), EmptyStr)
       ELSE Result(CloseBody(r.w, r.resp), NoErr, EmptyStr))

DeleteServiceAccount(w, ft, id) ==
    Bind(doRequest(w, ft, "DELETE", Path("/v1/service_account/{id}", id, EmptyStr), NoPayload),
         LAMBDA r :
    IF IsErr(r.err) THEN Result(r.w, Wrap("delete service account", r.err), EmptyStr)
       ELSE Result(CloseBody(r.w, r.resp), NoErr, EmptyStr))

----------------------------------------------------------------------------
(* Terraform values (types.String, types.List, the scope_map set) and the   *)
(* state of a kanidm_oauth2_basic resource (oauth2BasicResourceModel)        *)

TfNullString == [null |-> TRUE, v |-> EmptyStr]

TfString(s) == [null |-> FALSE, v |-> s]

TfNullList == [null |-> TRUE, elems |-> <<>>]

TfList(elems) == [null |-> FALSE, elems |-> elems]

\* scope_map: a set of {group, scopes} blocks, as group -> scopes
TfNullScopeMaps == [null |-> TRUE, maps |-> NoStored]

TfScopeMaps(maps) == [null |-> FALSE, maps |-> maps]

NoOAuth2State ==
    [present |-> FALSE, Name |-> TfNullString, DisplayName |-> TfNullString,
     Origin |-> TfNullString, RedirectURIs |-> TfNullList,
     ScopeMaps |-> TfNullScopeMaps, ClientSecret |-> TfNullString]

\* ElementsAs into a []string
ElementsAs(list) == IF list.null THEN NilSlice ELSE Slice(list.elems)

\* the redirect_uris written to state: a list when there is at least one
RedirectURIsValue(sl) == IF Len(sl.elems) > 0 THEN TfList(sl.elems) ELSE TfNullList

\* outcome of a handler: the world after it, the error diagnostic it added
\* (NoErr when none) and the state it leaves
Handled(w, diag, state) == [w |-> w, diag |-> diag, state |-> state]

Diag(summary, err) == Wrap(summary, err)

\* the groups of a set of scope maps in the order the handler visits them
GroupsInOrder(order, maps) == SelectSeq(order, LAMBDA g : g \in DOMAIN maps)

----------------------------------------------------------------------------
(* kanidm_oauth2_basic: Create, Read, Update, Delete, ImportState           *)

RECURSIVE SetScopeMaps(_, _, _, _, _)
SetScopeMaps(w, ft, name, groups, maps) ==
    IF groups = <<>> THEN Result(w, NoErr, EmptyStr)
    ELSE Bind(SetOAuth2ScopeMap(w, ft, name, Head(groups), Slice(maps[Head(groups)])),
              LAMBDA r :
         IF IsErr(r.err) THEN r
            ELSE SetScopeMaps(r.w, ft, name, Tail(groups), maps))

RECURSIVE DeleteScopeMaps(_, _, _, _)
DeleteScopeMaps(w, ft, name, groups) ==
    IF groups = <<>> THEN Result(w, NoErr, EmptyStr)
    ELSE Bind(DeleteOAuth2ScopeMap(w, ft, name, Head(groups)),
              LAMBDA r :
         IF IsErr(r.err) THEN r
            ELSE DeleteScopeMaps(r.w, ft, name, Tail(groups)))

OAuth2BasicCreate(w, ft, plan, order) ==
    Bind(CreateOAuth2BasicClient(w, ft, plan.Name.v, plan.DisplayName.v, plan.Origin.v),
         LAMBDA c :
    IF IsErr(c.err)
    THEN Handled(c.w, Diag("Error Creating OAuth2 Basic Client", c.err), NoOAuth2State)
    ELSE
    LET redirectURIs == ElementsAs(plan.RedirectURIs)
    IN Bind(UpdateOAuth2Client(c.w, ft, c.val.Name, plan.DisplayName.v, plan.Origin.v,
                                redirectURIs),
         LAMBDA u :
    IF IsErr(u.err)
    THEN Handled(u.w, Diag("Error Setting OAuth2 Configuration", u.err), NoOAuth2State)
    ELSE
    Bind(IF plan.ScopeMaps.null THEN Result(u.w, NoErr, EmptyStr)
             ELSE SetScopeMaps(u.w, ft, c.val.Name,
                               GroupsInOrder(order, plan.ScopeMaps.maps), plan.ScopeMaps.maps),
         LAMBDA s :
    IF IsErr(s.err)
    THEN Handled(s.w, Diag("Error Setting Scope Map", s.err), NoOAuth2State)
    ELSE
    Bind(GetOAuth2Client(s.w, ft, c.val.Name),
         LAMBDA g :
    IF IsErr(g.err)
    THEN Handled(g.w, Diag("Error Reading OAuth2 Client", g.err), NoOAuth2State)
    ELSE Handled(g.w, NoErr,
                 [present |-> TRUE,
                  Name |-> TfString(g.val.Name),
                  DisplayName |-> TfString(g.val.DisplayName),
                  Origin |-> TfString(g.val.Origin),
                  RedirectURIs |-> RedirectURIsValue(g.val.RedirectURIs),
                  ScopeMaps |-> plan.ScopeMaps,
                  ClientSecret |-> TfString(c.val.ClientSecret)])))))

\* a Read that only reads name, displayname, origin and the redirect URIs
OAuth2BasicRead_NoSecret(w, ft, state) ==
    Bind(GetOAuth2Client(w, ft, state.Name.v),
         LAMBDA g :
    IF IsErr(g.err)
    THEN IF ErrorsIs(g.err, "ErrNotFound")
         THEN Handled(g.w, NoErr, NoOAuth2State)
         ELSE Handled(g.w, Diag("Error Reading OAuth2 Basic Client", g.err), state)
    ELSE IF g.val.IsPublic
    THEN Handled(g.w, Diag("Invalid Client Type", Err("diagnostic")), state)
    ELSE Handled(g.w, NoErr,
                 [state EXCEPT !.Name = TfString(g.val.Name),
                               !.DisplayName = TfString(g.val.DisplayName),
                               !.Origin = TfString(g.val.Origin),
                               !.RedirectURIs = RedirectURIsValue(g.val.RedirectURIs)]))

OAuth2BasicRead(w, ft, state) ==
    Bind(GetOAuth2Client(w, ft, state.Name.v),
         LAMBDA g :
    IF IsErr(g.err)
    THEN IF ErrorsIs(g.err, "ErrNotFound")
         THEN Handled(g.w, NoErr, NoOAuth2State)
         ELSE Handled(g.w, Diag("Error Reading OAuth2 Basic Client", g.err), state)
    ELSE IF g.val.IsPublic
    THEN Handled(g.w, Diag("Invalid Client Type", Err("diagnostic")), state)
    ELSE
    LET s1 == [state EXCEPT !.Name = TfString(g.val.Name),
                            !.DisplayName = TfString(g.val.DisplayName),
                            !.Origin = TfString(g.val.Origin),
                            !.RedirectURIs = RedirectURIsValue(g.val.RedirectURIs)]
    IN IF state.ClientSecret.null \/ state.ClientSecret.v = EmptyStr
       THEN Bind(GetOAuth2BasicSecret(g.w, ft, s1.Name.v),
                 LAMBDA x :
            IF IsErr(x.err) THEN Handled(x.w, NoErr, s1)
               ELSE Handled(x.w, NoErr, [s1 EXCEPT !.ClientSecret = TfString(x.val)]))
       ELSE Handled(g.w, NoErr, s1))

\* an Update that sets the planned scope maps and deletes none
OAuth2BasicUpdate_SetOnly(w, ft, plan, state, order) ==
    LET redirectURIs == ElementsAs(plan.RedirectURIs)
    IN Bind(UpdateOAuth2Client(w, ft, plan.Name.v, plan.DisplayName.v, plan.Origin.v,
                                redirectURIs),
         LAMBDA u :
    IF IsErr(u.err)
    THEN Handled(u.w, Diag("Error Updating OAuth2 Basic Client", u.err), state)
    ELSE
    LET old == state.ScopeMaps.maps
        new == plan.ScopeMaps.maps
        gone == SelectSeq(order, LAMBDA grp : grp \in DOMAIN old /\ grp \notin DOMAIN new)
    IN Bind(DeleteScopeMaps(u.w, ft, plan.Name.v, SubSeq(gone, 1, 0)),
         LAMBDA d :
    IF IsErr(d.err)
    THEN Handled(d.w, Diag("Error Deleting Scope Map", d.err), state)
    ELSE
    Bind(SetScopeMaps(d.w, ft, plan.Name.v, GroupsInOrder(order, new), new),
         LAMBDA s :
    IF IsErr(s.err)
    THEN Handled(s.w, Diag("Error Setting Scope Map", s.err), state)
    ELSE
    Bind(GetOAuth2Client(s.w, ft, plan.Name.v),
         LAMBDA g :
    IF IsErr(g.err)
    THEN Handled(g.w, Diag("Error Reading OAuth2 Client", g.err), state)
    ELSE Handled(g.w, NoErr,
                 [present |-> TRUE,
                  Name |-> TfString(g.val.Name),
                  DisplayName |-> TfString(g.val.DisplayName),
                  Origin |-> TfString(g.val.Origin),
                  RedirectURIs |-> RedirectURIsValue(g.val.RedirectURIs),
                  ScopeMaps |-> plan.ScopeMaps,
                  ClientSecret |-> state.ClientSecret])))))

OAuth2BasicUpdate(w, ft, plan, state, order) ==
    LET redirectURIs == ElementsAs(plan.RedirectURIs)
    IN Bind(UpdateOAuth2Client(w, ft, plan.Name.v, plan.DisplayName.v, plan.Origin.v,
                                redirectURIs),
         LAMBDA u :
    IF IsErr(u.err)
    THEN Handled(u.w, Diag("Error Updating OAuth2 Basic Client", u.err), state)
    ELSE
    LET old == state.ScopeMaps.maps
        new == plan.ScopeMaps.maps
        gone == SelectSeq(order, LAMBDA grp : grp \in DOMAIN old /\ grp \notin DOMAIN new)
    IN Bind(DeleteScopeMaps(u.w, ft, plan.Name.v, gone),
         LAMBDA d :
    IF IsErr(d.err)
    THEN Handled(d.w, Diag("Error Deleting Scope Map", d.err), state)
    ELSE
    Bind(SetScopeMaps(d.w, ft, plan.Name.v, GroupsInOrder(order, new), new),
         LAMBDA s :
    IF IsErr(s.err)
    THEN Handled(s.w, Diag("Error Setting Scope Map", s.err), state)
    ELSE
    Bind(GetOAuth2Client(s.w, ft, plan.Name.v),
         LAMBDA g :
    IF IsErr(g.err)
    THEN Handled(g.w, Diag("Error Reading OAuth2 Client", g.err), state)
    ELSE Handled(g.w, NoErr,
                 [present |-> TRUE,
                  Name |-> TfString(g.val.Name),
                  DisplayName |-> TfString(g.val.DisplayName),
                  Origin |-> TfString(g.val.Origin),
                  RedirectURIs |-> RedirectURIsValue(g.val.RedirectURIs),
                  ScopeMaps |-> plan.ScopeMaps,
                  ClientSecret |-> state.ClientSecret])))))

\* the framework drops the state when Delete adds no error diagnostic
OAuth2BasicDelete(w, ft, state) ==
    Bind(DeleteOAuth2Client(w, ft, state.Name.v),
         LAMBDA d :
    IF IsErr(d.err) /\ ~ErrorsIs(d.err, "ErrNotFound")
    THEN Handled(d.w, Diag("Error Deleting OAuth2 Basic Client", d.err), state)
    ELSE Handled(d.w, NoErr, NoOAuth2State))

\* ImportStatePassthroughID: only name is set; no request is sent
OAuth2BasicImportState(w, id) ==
    Handled(w, NoErr, [NoOAuth2State EXCEPT !.present = TRUE, !.Name = TfString(id)])

----------------------------------------------------------------------------
(* kanidm_group: groupResourceModel and the handlers of groupResource       *)

\* types.Set of strings: null, or the set of its elements
TfNullSet == [null |-> TRUE, elems |-> {}]

TfSet(elems) == [null |-> FALSE, elems |-> elems]

NoGroupState ==
    [present |-> FALSE, ID |-> TfNullString, Description |-> TfNullString,
     Members |-> TfNullSet]

\* ElementsAs of a set into a []string, its elements in the order given
SetElementsAs(set, order) == Slice(SelectSeq(order, LAMBDA m : m \in set.elems))

\* types.SetValueFrom of a []string: a nil slice converts to the null set
SetValueFrom(sl) ==
    IF sl.isNil THEN TfNullSet ELSE TfSet({sl.elems[i] : i \in DOMAIN sl.elems})

PlanDescription(plan) == IF plan.Description.null THEN EmptyStr ELSE plan.Description.v

GroupReadBack(w, ft, plan, id, summary) ==
    Bind(GetGroup(w, ft, id),
         LAMBDA g :
    IF IsErr(g.err) THEN Handled(g.w, Diag(summary, g.err), NoGroupState)
    ELSE Handled(g.w, NoErr,
                 [plan EXCEPT !.ID = TfString(g.val.ID),
                              !.Description = TfString(g.val.Description),
                              !.Members = SetValueFrom(g.val.Members)]))

GroupCreate(w, ft, plan, order) ==
    Bind(CreateGroup(w, ft, plan.ID.v, PlanDescription(plan)),
         LAMBDA c :
    IF IsErr(c.err) THEN Handled(c.w, Diag("Error Creating Group", c.err), NoGroupState)
    ELSE LET memberIDs == IF plan.Members.null THEN NilSlice
                          ELSE SetElementsAs(plan.Members, order)
         IN IF ~plan.Members.null /\ Len(memberIDs.elems) > 0
            THEN Bind(UpdateGroup(c.w, ft, c.val.ID, EmptyStr, memberIDs),
                      LAMBDA u :
                 IF IsErr(u.err)
                    THEN Handled(u.w, Diag("Error Adding Members", u.err), NoGroupState)
                    ELSE GroupReadBack(u.w, ft, plan, c.val.ID, "Error Reading Group"))
            ELSE GroupReadBack(c.w, ft, plan, c.val.ID, "Error Reading Group"))

GroupRead(w, ft, state) ==
    Bind(GetGroup(w, ft, state.ID.v),
         LAMBDA g :
    IF IsErr(g.err)
    THEN IF ErrorsIs(g.err, "ErrNotFound")
         THEN Handled(g.w, NoErr, NoGroupState)
         ELSE Handled(g.w, Diag("Error Reading Group", g.err), state)
    ELSE Handled(g.w, NoErr,
                 [state EXCEPT !.ID = TfString(g.val.ID),
                               !.Description = TfString(g.val.Description),
                               !.Members = SetValueFrom(g.val.Members)]))

GroupUpdate(w, ft, plan, state, order) ==
    LET memberIDs == IF plan.Members.null THEN NilSlice ELSE SetElementsAs(plan.Members, order)
    IN Bind(UpdateGroup(w, ft, plan.ID.v, PlanDescription(plan), memberIDs),
         LAMBDA u :
    IF IsErr(u.err) THEN Handled(u.w, Diag("Error Updating Group", u.err), state)
       ELSE Bind(GroupReadBack(u.w, ft, plan, plan.ID.v, "Error Reading Group"),
                 LAMBDA h :
            IF IsErr(h.diag) THEN Handled(h.w, h.diag, state) ELSE h))

GroupDelete(w, ft, state) ==
    Bind(DeleteGroup(w, ft, state.ID.v),
         LAMBDA d :
    IF IsErr(d.err) /\ ~ErrorsIs(d.err, "ErrNotFound")
    THEN Handled(d.w, Diag("Error Deleting Group", d.err), state)
    ELSE Handled(d.w, NoErr, NoGroupState))

\* ImportStatePassthroughID: only id is set; no request is sent
GroupImportState(w, id) ==
    Handled(w, NoErr, [NoGroupState EXCEPT !.present = TRUE, !.ID = TfString(id)])

----------------------------------------------------------------------------
(* The kanidm_person resource (person_resource.go): personResourceModel    *)
(* and its Create handler                                                  *)

NoPersonState ==
    [present |-> FALSE, ID |-> TfNullString, DisplayName |-> TfNullString,
     Mail |-> TfNullList, Password |-> TfNullString,
     GenerateCredentialResetToken |-> FALSE, CredentialResetToken |-> TfNullString]

\* the mail written to state: the list read back when it has an element, the
\* planned value otherwise
PersonMailValue(plan, sl) == IF Len(sl.elems) > 0 THEN TfList(sl.elems) ELSE plan.Mail

\* a step the handler takes only under a condition
PersonStepIf(cond, w, step(_)) == IF cond THEN step(w) ELSE Result(w, NoErr, EmptyStr)

PersonCreate(w, ft, plan) ==
    IF ~plan.Password.null /\ plan.GenerateCredentialResetToken
    THEN Handled(w, Diag("Conflicting Configuration", Err("config")), NoPersonState)
    ELSE
    Bind(CreatePerson(w, ft, plan.ID.v, plan.DisplayName.v),
         LAMBDA c :
    IF IsErr(c.err)
    THEN Handled(c.w, Diag("Error Creating Person", c.err), NoPersonState)
    ELSE
    Bind(PersonStepIf(~plan.Password.null, c.w,
                      LAMBDA x : SetPersonPassword(x, ft, c.val.ID, plan.Password.v)),
         LAMBDA s :
    IF IsErr(s.err)
    THEN Handled(s.w, Diag("Error Setting Password", s.err), NoPersonState)
    ELSE
    Bind(PersonStepIf(plan.GenerateCredentialResetToken, s.w,
                      LAMBDA x : CreatePersonCredentialResetToken(x, ft, c.val.ID, 0)),
         LAMBDA t :
    IF IsErr(t.err)
    THEN Handled(t.w, Diag("Error Generating Credential Reset Token", t.err), NoPersonState)
    ELSE
    Bind(PersonStepIf(~plan.Mail.null /\ Len(plan.Mail.elems) > 0, t.w,
                      LAMBDA x : UpdatePerson(x, ft, c.val.ID, EmptyStr, ElementsAs(plan.Mail))),
         LAMBDA u :
    IF IsErr(u.err)
    THEN Handled(u.w, Diag("Error Updating Mail", u.err), NoPersonState)
    ELSE
    Bind(GetPerson(u.w, ft, c.val.ID),
         LAMBDA g :
    IF IsErr(g.err)
    THEN Handled(g.w, Diag("Error Reading Person", g.err), NoPersonState)
    ELSE Handled(g.w, NoErr,
                 [plan EXCEPT !.present = TRUE,
                              !.ID = TfString(g.val.ID),
                              !.DisplayName = TfString(g.val.DisplayName),
                              !.Mail = PersonMailValue(plan, g.val.Mail),
                              !.CredentialResetToken =
                                  IF plan.GenerateCredentialResetToken THEN TfString(t.val)
                                  ELSE plan.CredentialResetToken]))))))

\* the mail written to state by Read and Update: null when none is read back
MailValue(sl) == IF Len(sl.elems) > 0 THEN TfList(sl.elems) ELSE TfNullList

PersonRead(w, ft, state) ==
    Bind(GetPerson(w, ft, state.ID.v),
         LAMBDA g :
    IF IsErr(g.err)
    THEN IF ErrorsIs(g.err, "ErrNotFound")
         THEN Handled(g.w, NoErr, NoPersonState)
         ELSE Handled(g.w, Diag("Error Reading Person", g.err), state)
    ELSE Handled(g.w, NoErr,
                 [state EXCEPT !.ID = TfString(g.val.ID),
                               !.DisplayName = TfString(g.val.DisplayName),
                               !.Mail = MailValue(g.val.Mail)]))

PersonUpdate(w, ft, plan, state) ==
    Bind(UpdatePerson(w, ft, plan.ID.v, plan.DisplayName.v, ElementsAs(plan.Mail)),
         LAMBDA u :
    IF IsErr(u.err)
    THEN Handled(u.w, Diag("Error Updating Person", u.err), state)
    ELSE
    Bind(PersonStepIf(plan.Password # state.Password /\ ~plan.Password.null, u.w,
                      LAMBDA x : SetPersonPassword(x, ft, plan.ID.v, plan.Password.v)),
         LAMBDA s :
    IF IsErr(s.err)
    THEN Handled(s.w, Diag("Error Updating Password", s.err), state)
    ELSE
    Bind(PersonStepIf(plan.GenerateCredentialResetToken
                         /\ plan.GenerateCredentialResetToken # state.GenerateCredentialResetToken,
                      s.w,
                      LAMBDA x : CreatePersonCredentialResetToken(x, ft, plan.ID.v, 0)),
         LAMBDA t :
    IF IsErr(t.err)
    THEN Handled(t.w, Diag("Error Generating Credential Reset Token", t.err), state)
    ELSE
    Bind(GetPerson(t.w, ft, plan.ID.v),
         LAMBDA g :
    IF IsErr(g.err)
    THEN Handled(g.w, Diag("Error Reading Person", g.err), state)
    ELSE Handled(g.w, NoErr,
                 [plan EXCEPT !.present = TRUE,
                              !.ID = TfString(g.val.ID),
                              !.DisplayName = TfString(g.val.DisplayName),
                              !.Mail = MailValue(g.val.Mail),
                              !.CredentialResetToken =
                                  IF plan.GenerateCredentialResetToken
                                        /\ plan.GenerateCredentialResetToken
                                              # state.GenerateCredentialResetToken
                                  THEN TfString(t.val)
                                  ELSE plan.CredentialResetToken])))))

\* the framework drops the state when Delete adds no error diagnostic
PersonDelete(w, ft, state) ==
    Bind(DeletePerson(w, ft, state.ID.v),
         LAMBDA d :
    IF IsErr(d.err) /\ ~ErrorsIs(d.err, "ErrNotFound")
    THEN Handled(d.w, Diag("Error Deleting Person", d.err), state)
    ELSE Handled(d.w, NoErr, NoPersonState))

----------------------------------------------------------------------------
(* The kanidm_service_account resource: serviceAccountResourceModel and the *)
(* handlers of serviceAccountResource                                      *)

\* ImportStatePassthroughID: only id is set; no request is sent
PersonImportState(w, id) ==
    Handled(w, NoErr, [NoPersonState EXCEPT !.present = TRUE, !.ID = TfString(id)])

NoServiceAccountState == [present |-> FALSE, ID |-> TfNullString, APIToken |-> TfNullString]

ServiceAccountCreate(w, ft, plan) ==
    Bind(CreateServiceAccount(w, ft, plan.ID.v),
         LAMBDA c :
    IF IsErr(c.err)
    THEN Handled(c.w, Diag("Error Creating Service Account", c.err), NoServiceAccountState)
    ELSE Handled(c.w, NoErr,
                 [plan EXCEPT !.present = TRUE,
                              !.ID = TfString(c.val.ID),
                              !.APIToken = TfString(c.val.APIToken)]))

\* a Read that reports every Get error, not found included
ServiceAccountRead_NotFoundIsError(w, ft, state) ==
    Bind(GetServiceAccount(w, ft, state.ID.v),
         LAMBDA g :
    IF IsErr(g.err)
    THEN Handled(g.w, Diag("Error Reading Service Account", g.err), state)
    ELSE Handled(g.w, NoErr, [state EXCEPT !.ID = TfString(g.val.ID)]))

ServiceAccountRead(w, ft, state) ==
    Bind(GetServiceAccount(w, ft, state.ID.v),
         LAMBDA g :
    IF IsErr(g.err)
    THEN IF ErrorsIs(g.err, "ErrNotFound")
         THEN Handled(g.w, NoErr, NoServiceAccountState)
         ELSE Handled(g.w, Diag("Error Reading Service Account", g.err), state)
    ELSE Handled(g.w, NoErr, [state EXCEPT !.ID = TfString(g.val.ID)]))

\* no request is sent: the planned id is kept with the token of the state
\* an Update that writes the plan as it is, api_token included
ServiceAccountUpdate_PlannedToken(w, plan, state) ==
    Handled(w, NoErr, [plan EXCEPT !.present = TRUE])

ServiceAccountUpdate(w, plan, state) ==
    Handled(w, NoErr, [plan EXCEPT !.present = TRUE, !.APIToken = state.APIToken])

ServiceAccountDelete(w, ft, state) ==
    Bind(DeleteServiceAccount(w, ft, state.ID.v),
         LAMBDA d :
    IF IsErr(d.err) /\ ~ErrorsIs(d.err, "ErrNotFound")
    THEN Handled(d.w, Diag("Error Deleting Service Account", d.err), state)
    ELSE Handled(d.w, NoErr, NoServiceAccountState))

\* ImportStatePassthroughID: only id is set; no request is sent
ServiceAccountImportState(w, id) ==
    Handled(w, NoErr, [NoServiceAccountState EXCEPT !.present = TRUE, !.ID = TfString(id)])

----------------------------------------------------------------------------
(* Calls of the client running concurrently on one Client: each call builds *)
(* its request, the server receives the requests one at a time, and each    *)
(* call returns when its response arrives.  The Client holds no state that  *)
(* a call changes (baseURL, token and httpClient are set at construction).  *)

Procs == {1, 2}

NoRequest == [method |-> "none", path |-> Path("none", EmptyStr, EmptyStr), payload |-> NoPayload]

\* a call: where it is (idle, sent, answered, done), its operation and
\* arguments, the request it built, the status answered (0: no response) and
\* the error it returned
NoProc ==
    [pc |-> "idle", op |-> "none", name |-> EmptyStr, group |-> EmptyStr,
     description |-> EmptyStr, list |-> NilSlice, req |-> NoRequest, status |-> 0,
     err |-> NoErr]

\* the calls, the calls whose requests the server received, in that order,
\* and the server before the first of them
NoConc == [procs |-> [p \in Procs |-> NoProc], received |-> <<>>, start |-> InitSrv]

----------------------------------------------------------------------------
(* State shared by the specifications *)

Ret(op, name, err, val) == [op |-> op, name |-> name, err |-> err, val |-> val]

NoRet == Ret("none", EmptyStr, NoErr, EmptyStr)

\* a call of the client API as the history keeps it: a successful secret
\* retrieval or regeneration with the value returned, any other call as "other"
Call(op, name, val) == [op |-> op, name |-> name, val |-> val]

NoCall == Call("none", EmptyStr, EmptyStr)

OtherCall(name) == Call("other", name, EmptyStr)

NoHist == <<NoCall, NoCall, NoCall>>

NoCallInfo == [args |-> <<>>, exch |-> <<>>, n |-> 0]

Push(h, c) == <<h[2], h[3], c>>

\* what a log shows of each exchange
Exchanges(log) ==
    [i \in 1..Len(log) |->
        [method |-> log[i].method, ep |-> log[i].path.ep, name |-> log[i].path.name,
         group |-> log[i].path.group,
         payload |-> log[i].payload, status |-> log[i].status, reply |-> log[i].reply,
         body |-> log[i].body]]

\* the methods of the requests of a log that went to the _basic_secret endpoint
SecretRequests(log) ==
    LET sel == SelectSeq(log, LAMBDA q : q.path.ep = "/v1/oauth2/{name}/_basic_secret")
    IN [i \in 1..Len(sel) |-> sel[i].method]

----------------------------------------------------------------------------
(* Specification of the Attribute View: an entry and a key are drawn, and   *)
(* the accessors and decoders are applied to them.                          *)

SecondKeys == {"oauth2_rs_basic_secret", "name"}

SecondValues == {AnyString(<<"a">>), AnyList(<<>>)}

OneKeyEntries(k) == {NoAttrs} \cup {[x \in {k} |-> v] : v \in AttrValues}

EntriesUnderTest(k) ==
    OneKeyEntries(k) \cup
    {[x \in (DOMAIN e) \cup {k2} |-> IF x = k2 THEN v2 ELSE e[x]] :
        e \in OneKeyEntries(k), k2 \in SecondKeys \ {k}, v2 \in SecondValues}

InitView ==
    /\ viewKey \in AttrKeys
    /\ entry \in EntriesUnderTest(viewKey)
    /\ ret = NoRet
    /\ srv = InitSrv
    /\ hist = NoHist
    /\ createdAs = [n \in OAuth2Names |-> "none"]
    /\ secretReqs = <<>>
    /\ call = NoCallInfo
    /\ tfOAuth2 = NoOAuth2State
    /\ tfGroup = NoGroupState
    /\ tfPerson = NoPersonState
    /\ tfServiceAccount = NoServiceAccountState
    /\ conc = NoConc

ViewGetString ==
    /\ ret' = Ret("GetString", EmptyStr, NoErr, GetString(entry, viewKey))
    /\ UNCHANGED <<viewVars, apiVars, tfVars>>

ViewGetStringSlice ==
    /\ ret' = Ret("GetStringSlice", EmptyStr, NoErr, GetStringSlice(entry, viewKey))
    /\ UNCHANGED <<viewVars, apiVars, tfVars>>

ViewGetOAuth2Client ==
    /\ ret' = Ret("GetOAuth2Client", EmptyStr, NoErr, OAuth2ClientOfEntry(entry))
    /\ UNCHANGED <<viewVars, apiVars, tfVars>>

ViewGetGroup ==
    /\ ret' = Ret("GetGroup", EmptyStr, NoErr, GroupOfEntry(entry))
    /\ UNCHANGED <<viewVars, apiVars, tfVars>>

ViewGetPerson ==
    /\ ret' = Ret("GetPerson", EmptyStr, NoErr, PersonOfEntry(entry))
    /\ UNCHANGED <<viewVars, apiVars, tfVars>>

NextView ==
    \/ ViewGetString
    \/ ViewGetStringSlice
    \/ ViewGetOAuth2Client
    \/ ViewGetGroup
    \/ ViewGetPerson

SpecView == InitView /\ [][NextView]_vars

----------------------------------------------------------------------------
(* Specification of the OAuth2 client API: callers invoke the operations of  *)
(* oauth2.go against the server; every action is one call, with the          *)
(* exchanges it makes.                                                       *)

DisplayNames == {EmptyStr, <<"d">>}

Origins == {EmptyStr, <<"a", "/">>}

RedirectInputs == {NilSlice, Slice(<<<<"a">>>>)}

ScopeInputs == {Slice(<<<<"o">>>>)}

\* the server generates at most MaxSecrets secrets
SecretsInBound(s) == s.nextSecret <= MaxSecrets + 1

InitApi ==
    /\ srv = InitSrv
    /\ hist = NoHist
    /\ createdAs = [n \in OAuth2Names |-> "none"]
    /\ secretReqs = <<>>
    /\ call = NoCallInfo
    /\ tfOAuth2 = NoOAuth2State
    /\ tfGroup = NoGroupState
    /\ tfPerson = NoPersonState
    /\ tfServiceAccount = NoServiceAccountState
    /\ conc = NoConc
    /\ ret = NoRet

Init ==
    /\ InitApi
    /\ entry = NoAttrs
    /\ viewKey = "name"

\* what a specification observes of each call: its result (ret), its result
\* without the value returned (status), or its place in the history of secret
\* calls (hist)
Observe(obs, r) ==
    CASE obs = "ret" -> r
      [] obs = "status" -> [r EXCEPT !.val = EmptyStr]
      [] OTHER -> ret

Record(obs, c) == IF obs = "hist" THEN Push(hist, c) ELSE hist

ApiCreateOAuth2BasicClient(modes, obs) ==
    \E name \in OAuth2Names, displayName \in DisplayNames, origin \in Origins,
       ft \in Faults(modes, 2) :
        /\ UNCHANGED <<viewVars, tfVars>>
        /\ Bind(CreateOAuth2BasicClient(World(srv), ft, name, displayName, origin),
                LAMBDA r :
           /\ SecretsInBound(r.w.srv)
           /\ srv' = r.w.srv
           /\ secretReqs' = SecretRequests(r.w.log)
           /\ UNCHANGED <<call, conc>>
           /\ ret' = Observe(obs, Ret("CreateOAuth2BasicClient", name, r.err, r.val))
           /\ hist' = Record(obs, OtherCall(name))
           /\ createdAs' = IF IsErr(r.err) THEN createdAs ELSE [createdAs EXCEPT ![name] = "basic"])

ApiCreateOAuth2PublicClient(modes, obs) ==
    \E name \in OAuth2Names, displayName \in DisplayNames, origin \in Origins,
       ft \in Faults(modes, 1) :
        /\ UNCHANGED <<viewVars, tfVars>>
        /\ Bind(CreateOAuth2PublicClient(World(srv), ft, name, displayName, origin),
                LAMBDA r :
           /\ SecretsInBound(r.w.srv)
           /\ srv' = r.w.srv
           /\ secretReqs' = SecretRequests(r.w.log)
           /\ UNCHANGED <<call, conc>>
           /\ ret' = Observe(obs, Ret("CreateOAuth2PublicClient", name, r.err, r.val))
           /\ hist' = Record(obs, OtherCall(name))
           /\ createdAs' = IF IsErr(r.err) THEN createdAs ELSE [createdAs EXCEPT ![name] = "public"])

ApiGetOAuth2Client(modes, obs) ==
    \E name \in OAuth2Names, ft \in Faults(modes, 1) :
        /\ UNCHANGED <<createdAs, viewVars, tfVars>>
        /\ Bind(GetOAuth2Client(World(srv), ft, name),
                LAMBDA r :
           /\ srv' = r.w.srv
           /\ secretReqs' = SecretRequests(r.w.log)
           /\ UNCHANGED <<call, conc>>
           /\ ret' = Observe(obs, Ret("GetOAuth2Client", name, r.err, r.val))
           /\ hist' = Record(obs, OtherCall(name)))

ApiUpdateOAuth2Client(modes, obs) ==
    \E name \in OAuth2Names, displayName \in DisplayNames, origin \in Origins,
       redirectURIs \in RedirectInputs, ft \in Faults(modes, 1) :
        /\ UNCHANGED <<createdAs, viewVars, tfVars>>
        /\ Bind(UpdateOAuth2Client(World(srv), ft, name, displayName, origin, redirectURIs),
                LAMBDA r :
           /\ srv' = r.w.srv
           /\ secretReqs' = SecretRequests(r.w.log)
           /\ UNCHANGED <<call, conc>>
           /\ ret' = Observe(obs, Ret("UpdateOAuth2Client", name, r.err, r.val))
           /\ hist' = Record(obs, OtherCall(name)))

ApiDeleteOAuth2Client(modes, obs) ==
    \E name \in OAuth2Names, ft \in Faults(modes, 1) :
        /\ UNCHANGED <<viewVars, tfVars>>
        /\ Bind(DeleteOAuth2Client(World(srv), ft, name),
                LAMBDA r :
           /\ srv' = r.w.srv
           /\ secretReqs' = SecretRequests(r.w.log)
           /\ UNCHANGED <<call, conc>>
           /\ ret' = Observe(obs, Ret("DeleteOAuth2Client", name, r.err, r.val))
           /\ hist' = Record(obs, OtherCall(name))
           /\ createdAs' = IF IsErr(r.err) THEN createdAs ELSE [createdAs EXCEPT ![name] = "none"])

ApiSetOAuth2ScopeMap(modes, obs) ==
    \E name \in OAuth2Names, group \in ScopeGroups, scopes \in ScopeInputs,
       ft \in Faults(modes, 1) :
        /\ UNCHANGED <<createdAs, viewVars, tfVars>>
        /\ Bind(SetOAuth2ScopeMap(World(srv), ft, name, group, scopes),
                LAMBDA r :
           /\ srv' = r.w.srv
           /\ secretReqs' = SecretRequests(r.w.log)
           /\ UNCHANGED <<call, conc>>
           /\ ret' = Observe(obs, Ret("SetOAuth2ScopeMap", name, r.err, r.val))
           /\ hist' = Record(obs, OtherCall(name)))

ApiDeleteOAuth2ScopeMap(modes, obs) ==
    \E name \in OAuth2Names, group \in ScopeGroups, ft \in Faults(modes, 1) :
        /\ UNCHANGED <<createdAs, viewVars, tfVars>>
        /\ Bind(DeleteOAuth2ScopeMap(World(srv), ft, name, group),
                LAMBDA r :
           /\ srv' = r.w.srv
           /\ secretReqs' = SecretRequests(r.w.log)
           /\ UNCHANGED <<call, conc>>
           /\ ret' = Observe(obs, Ret("DeleteOAuth2ScopeMap", name, r.err, r.val))
           /\ hist' = Record(obs, OtherCall(name)))

ApiGetOAuth2BasicSecret(modes, obs) ==
    \E name \in OAuth2Names, ft \in Faults(modes, 1) :
        /\ UNCHANGED <<createdAs, viewVars, tfVars>>
        /\ Bind(GetOAuth2BasicSecret(World(srv), ft, name),
                LAMBDA r :
           /\ SecretsInBound(r.w.srv)
           /\ srv' = r.w.srv
           /\ secretReqs' = SecretRequests(r.w.log)
           /\ UNCHANGED <<call, conc>>
           /\ ret' = Observe(obs, Ret("GetOAuth2BasicSecret", name, r.err, r.val))
           /\ hist' = Record(obs, IF IsErr(r.err) THEN OtherCall(name) ELSE Call("get", name, r.val)))

ApiRegenerateOAuth2BasicSecret(modes, obs) ==
    \E name \in OAuth2Names, ft \in Faults(modes, 1) :
        /\ UNCHANGED <<createdAs, viewVars, tfVars>>
        /\ Bind(RegenerateOAuth2BasicSecret(World(srv), ft, name),
                LAMBDA r :
           /\ SecretsInBound(r.w.srv)
           /\ srv' = r.w.srv
           /\ secretReqs' = SecretRequests(r.w.log)
           /\ UNCHANGED <<call, conc>>
           /\ ret' = Observe(obs, Ret("RegenerateOAuth2BasicSecret", name, r.err, r.val))
           /\ hist' = Record(obs, IF IsErr(r.err) THEN OtherCall(name) ELSE Call("regen", name, r.val)))

NextApi(modes, obs) ==
    \/ ApiCreateOAuth2BasicClient(modes, obs)
    \/ ApiCreateOAuth2PublicClient(modes, obs)
    \/ ApiGetOAuth2Client(modes, obs)
    \/ ApiUpdateOAuth2Client(modes, obs)
    \/ ApiDeleteOAuth2Client(modes, obs)
    \/ ApiSetOAuth2ScopeMap(modes, obs)
    \/ ApiDeleteOAuth2ScopeMap(modes, obs)
    \/ ApiGetOAuth2BasicSecret(modes, obs)
    \/ ApiRegenerateOAuth2BasicSecret(modes, obs)

\* the server answers as Kanidm does, or fails the exchange
Next == NextApi(ErrorModes, "ret")

Spec == Init /\ [][Next]_vars

\* the same calls, observed through the history of secret calls
NextSecrets == NextApi(ErrorModes, "hist")

SpecSecrets == Init /\ [][NextSecrets]_vars

\* any server: an exchange may also be answered 200 with an unexpected body
NextAnyServer == NextApi(AnyModes, "ret")

SpecAnyServer == Init /\ [][NextAnyServer]_vars

----------------------------------------------------------------------------
(* Specification of the kanidm_oauth2_basic resource: Terraform runs the    *)
(* handlers on one resource instance, while other callers use the client    *)
(* API on the same server.                                                  *)

Orders(S) == {f \in [1..Cardinality(S) -> S] : \A i, j \in DOMAIN f : f[i] = f[j] => i = j}

OAuth2Plans ==
    {[present |-> TRUE, Name |-> TfString(n), DisplayName |-> TfString(<<"d">>),
      Origin |-> TfString(<<"a", "/">>), RedirectURIs |-> uris, ScopeMaps |-> TfScopeMaps(maps),
      ClientSecret |-> TfNullString] :
        n \in OAuth2Names,
        uris \in {TfNullList, TfList(<<<<"a">>>>)},
        maps \in {NoStored} \cup {[g \in {grp} |-> <<<<"o">>>>] : grp \in ScopeGroups}}

ResOAuth2Create(modes) ==
    /\ ~tfOAuth2.present
    /\ \E plan \in OAuth2Plans, order \in Orders(ScopeGroups),
          ft \in Faults(modes, 4 + Cardinality(ScopeGroups)) :
        Bind(OAuth2BasicCreate(World(srv), ft, plan, order),
             LAMBDA h :
        /\ SecretsInBound(h.w.srv)
        /\ srv' = h.w.srv
        /\ secretReqs' = SecretRequests(h.w.log)
        /\ UNCHANGED <<call, conc>>
        /\ tfOAuth2' = IF IsErr(h.diag) THEN tfOAuth2 ELSE h.state
        /\ ret' = Ret("oauth2BasicResource.Create", plan.Name.v, h.diag, EmptyStr)
        /\ UNCHANGED <<hist, createdAs, viewVars, tfGroup, tfPerson, tfServiceAccount>>)

ResOAuth2Read(modes) ==
    /\ tfOAuth2.present
    /\ \E ft \in Faults(modes, 2) :
        Bind(OAuth2BasicRead(World(srv), ft, tfOAuth2),
             LAMBDA h :
        /\ SecretsInBound(h.w.srv)
        /\ srv' = h.w.srv
        /\ secretReqs' = SecretRequests(h.w.log)
        /\ UNCHANGED <<call, conc>>
        /\ tfOAuth2' = h.state
        /\ ret' = Ret("oauth2BasicResource.Read", tfOAuth2.Name.v, h.diag, EmptyStr)
        /\ UNCHANGED <<hist, createdAs, viewVars, tfGroup, tfPerson, tfServiceAccount>>)

ResOAuth2Update(modes) ==
    /\ tfOAuth2.present
    /\ \E plan \in OAuth2Plans, order \in Orders(ScopeGroups),
          ft \in Faults(modes, 2 + Cardinality(ScopeGroups)) :
        Bind(OAuth2BasicUpdate(World(srv), ft, plan, tfOAuth2, order),
             LAMBDA h :
        /\ plan.Name = tfOAuth2.Name
        /\ SecretsInBound(h.w.srv)
        /\ srv' = h.w.srv
        /\ secretReqs' = SecretRequests(h.w.log)
        /\ UNCHANGED <<call, conc>>
        /\ tfOAuth2' = h.state
        /\ ret' = Ret("oauth2BasicResource.Update", plan.Name.v, h.diag, EmptyStr)
        /\ UNCHANGED <<hist, createdAs, viewVars, tfGroup, tfPerson, tfServiceAccount>>)

ResOAuth2Delete(modes) ==
    /\ tfOAuth2.present
    /\ \E ft \in Faults(modes, 1) :
        Bind(OAuth2BasicDelete(World(srv), ft, tfOAuth2),
             LAMBDA h :
        /\ srv' = h.w.srv
        /\ secretReqs' = SecretRequests(h.w.log)
        /\ UNCHANGED <<call, conc>>
        /\ tfOAuth2' = h.state
        /\ ret' = Ret("oauth2BasicResource.Delete", tfOAuth2.Name.v, h.diag, EmptyStr)
        /\ UNCHANGED <<hist, createdAs, viewVars, tfGroup, tfPerson, tfServiceAccount>>)

ResOAuth2ImportState ==
    /\ ~tfOAuth2.present
    /\ \E id \in OAuth2Names :
        Bind(OAuth2BasicImportState(World(srv), id),
             LAMBDA h :
        /\ srv' = h.w.srv
        /\ secretReqs' = SecretRequests(h.w.log)
        /\ UNCHANGED <<call, conc>>
        /\ tfOAuth2' = h.state
        /\ ret' = Ret("oauth2BasicResource.ImportState", id, h.diag, EmptyStr)
        /\ UNCHANGED <<hist, createdAs, viewVars, tfGroup, tfPerson, tfServiceAccount>>)

\* the server Terraform starts against: empty, or holding a client that was
\* created through the client API beforehand (confidential or public)
PreexistingServers ==
    {InitSrv,
     CreateOAuth2BasicClient(World(InitSrv), NoFault, <<"c">>, <<"d">>, <<"a", "/">>).w.srv,
     CreateOAuth2PublicClient(World(InitSrv), NoFault, <<"c">>, <<"d">>, <<"a", "/">>).w.srv}

InitOAuth2Resource ==
    /\ srv \in PreexistingServers
    /\ hist = NoHist
    /\ createdAs = [n \in OAuth2Names |-> "none"]
    /\ secretReqs = <<>>
    /\ call = NoCallInfo
    /\ tfOAuth2 = NoOAuth2State
    /\ tfGroup = NoGroupState
    /\ tfPerson = NoPersonState
    /\ tfServiceAccount = NoServiceAccountState
    /\ conc = NoConc
    /\ ret = NoRet
    /\ entry = NoAttrs
    /\ viewKey = "name"

NextOAuth2Resource ==
    \/ ResOAuth2Create(ErrorModes)
    \/ ResOAuth2Read(ErrorModes)
    \/ ResOAuth2Update(ErrorModes)
    \/ ResOAuth2Delete(ErrorModes)
    \/ ResOAuth2ImportState
    \/ ApiDeleteOAuth2Client(ErrorModes, "status")
    \/ ApiGetOAuth2BasicSecret(ErrorModes, "status")
    \/ ApiRegenerateOAuth2BasicSecret(ErrorModes, "status")

SpecOAuth2Resource == InitOAuth2Resource /\ [][NextOAuth2Resource]_vars

----------------------------------------------------------------------------
(* Specification of groups: the calls of group.go and the handlers of the   *)
(* kanidm_group resource on one resource instance, against any server.      *)

MemberIDs == {<<"m">>, <<"n">>}

GroupDescriptions == {EmptyStr, <<"d">>}

MemberInputs ==
    {NilSlice, Slice(<<>>), Slice(<<<<"n">>>>), Slice(<<<<"m">>, <<"n">>>>)}

GroupPlans ==
    {[present |-> TRUE, ID |-> TfString(id), Description |-> d, Members |-> m] :
        id \in GroupNames,
        d \in {TfNullString, TfString(<<"d">>)},
        m \in {TfNullSet, TfSet({}), TfSet(MemberIDs)}}

GroupStep(op, id, w, err, val) ==
    /\ srv' = w.srv
    /\ secretReqs' = SecretRequests(w.log)
    /\ UNCHANGED <<call, conc>>
    /\ ret' = Ret(op, id, err, val)
    /\ UNCHANGED <<hist, createdAs, viewVars, tfOAuth2, tfPerson, tfServiceAccount>>

ApiCreateGroup(modes) ==
    \E id \in GroupNames, description \in GroupDescriptions, ft \in Faults(modes, 1) :
        /\ UNCHANGED tfGroup
        /\ Bind(CreateGroup(World(srv), ft, id, description),
                LAMBDA r :
           /\ GroupStep("CreateGroup", id, r.w, r.err, r.val))

ApiGetGroup(modes) ==
    \E id \in GroupNames, ft \in Faults(modes, 1) :
        /\ UNCHANGED tfGroup
        /\ Bind(GetGroup(World(srv), ft, id),
                LAMBDA r :
           /\ GroupStep("GetGroup", id, r.w, r.err, r.val))

ApiUpdateGroup(modes) ==
    \E id \in GroupNames, description \in GroupDescriptions, members \in MemberInputs,
       ft \in Faults(modes, 1) :
        /\ UNCHANGED tfGroup
        /\ Bind(UpdateGroup(World(srv), ft, id, description, members),
                LAMBDA r :
           /\ GroupStep("UpdateGroup", id, r.w, r.err, r.val))

ApiDeleteGroup(modes) ==
    \E id \in GroupNames, ft \in Faults(modes, 1) :
        /\ UNCHANGED tfGroup
        /\ Bind(DeleteGroup(World(srv), ft, id),
                LAMBDA r :
           /\ GroupStep("DeleteGroup", id, r.w, r.err, r.val))

ApiAddGroupMembers(modes) ==
    \E id \in GroupNames, members \in MemberInputs, ft \in Faults(modes, 1) :
        /\ UNCHANGED tfGroup
        /\ Bind(AddGroupMembers(World(srv), ft, id, members),
                LAMBDA r :
           /\ GroupStep("AddGroupMembers", id, r.w, r.err, r.val))

ApiRemoveGroupMembers(modes) ==
    \E id \in GroupNames, members \in MemberInputs, ft \in Faults(modes, 1) :
        /\ UNCHANGED tfGroup
        /\ Bind(RemoveGroupMembers(World(srv), ft, id, members),
                LAMBDA r :
           /\ GroupStep("RemoveGroupMembers", id, r.w, r.err, r.val))

ResGroupCreate(modes) ==
    /\ ~tfGroup.present
    /\ \E plan \in GroupPlans, order \in Orders(MemberIDs), ft \in Faults(modes, 3) :
        Bind(GroupCreate(World(srv), ft, plan, order),
             LAMBDA h :
        /\ GroupStep("groupResource.Create", plan.ID.v, h.w, h.diag, EmptyStr)
        /\ tfGroup' = IF IsErr(h.diag) THEN tfGroup ELSE h.state)

ResGroupRead(modes) ==
    /\ tfGroup.present
    /\ \E ft \in Faults(modes, 1) :
        Bind(GroupRead(World(srv), ft, tfGroup),
             LAMBDA h :
        /\ GroupStep("groupResource.Read", tfGroup.ID.v, h.w, h.diag, EmptyStr)
        /\ tfGroup' = h.state)

ResGroupUpdate(modes) ==
    /\ tfGroup.present
    /\ \E plan \in GroupPlans, order \in Orders(MemberIDs), ft \in Faults(modes, 2) :
        Bind(GroupUpdate(World(srv), ft, plan, tfGroup, order),
             LAMBDA h :
        /\ plan.ID = tfGroup.ID
        /\ GroupStep("groupResource.Update", plan.ID.v, h.w, h.diag, EmptyStr)
        /\ tfGroup' = h.state)

ResGroupDelete(modes) ==
    /\ tfGroup.present
    /\ \E ft \in Faults(modes, 1) :
        Bind(GroupDelete(World(srv), ft, tfGroup),
             LAMBDA h :
        /\ GroupStep("groupResource.Delete", tfGroup.ID.v, h.w, h.diag, EmptyStr)
        /\ tfGroup' = h.state)

ResGroupImportState ==
    /\ ~tfGroup.present
    /\ \E id \in GroupNames :
        Bind(GroupImportState(World(srv), id),
             LAMBDA h :
        /\ GroupStep("groupResource.ImportState", id, h.w, h.diag, EmptyStr)
        /\ tfGroup' = h.state)

\* what an exchange about a group can do besides the server's own answer: an
\* error status, or 200 with JSON null as the body
GroupModes == {"ok", "404", "500", "200:null"}

NextGroup ==
    \/ ApiCreateGroup(GroupModes)
    \/ ApiGetGroup(GroupModes)
    \/ ApiUpdateGroup(GroupModes)
    \/ ApiDeleteGroup(GroupModes)
    \/ ApiAddGroupMembers(GroupModes)
    \/ ApiRemoveGroupMembers(GroupModes)
    \/ ResGroupCreate(GroupModes)
    \/ ResGroupRead(GroupModes)
    \/ ResGroupUpdate(GroupModes)
    \/ ResGroupDelete(GroupModes)
    \/ ResGroupImportState

SpecGroup == Init /\ [][NextGroup]_vars

----------------------------------------------------------------------------
(* Properties of the Attribute View and of the decoders (SpecView) *)

KeyAbsent == viewKey \notin DOMAIN entry

ScalarValue == viewKey \in DOMAIN entry /\ entry[viewKey].t = "string"

ListValue == viewKey \in DOMAIN entry /\ entry[viewKey].t = "[]any"

\* C4: GetOAuth2Client reports IsPublic exactly when the key
\* oauth2_rs_basic_secret is absent from the decoded attrs; when the key is
\* present the client is reported confidential whatever the value is (empty
\* string, empty list, null, number or non-empty).
C4_PublicIffSecretKeyAbsent ==
    ret.op = "GetOAuth2Client" =>
        /\ ("oauth2_rs_basic_secret" \notin DOMAIN entry) => ret.val.IsPublic = TRUE
        /\ \A v \in AttrValues :
              ("oauth2_rs_basic_secret" \in DOMAIN entry
                  /\ entry["oauth2_rs_basic_secret"] = v) => ret.val.IsPublic = FALSE

C4_Witness ==
    /\ ret.op = "GetOAuth2Client"
    /\ "oauth2_rs_basic_secret" \in DOMAIN entry
    /\ entry["oauth2_rs_basic_secret"] = AnyList(<<>>)
    /\ ret.val.IsPublic = FALSE

\* C6: for a key absent from the entry GetString returns the empty string and
\* GetStringSlice returns an empty slice that is not nil; GetPerson on an entry
\* without mail returns a non-nil empty Mail.
C6_AbsentKeyEmptyNotNil ==
    /\ (ret.op = "GetString" /\ KeyAbsent) => ret.val = EmptyStr
    /\ (ret.op = "GetStringSlice" /\ KeyAbsent) => ret.val = Slice(<<>>)
    /\ (ret.op = "GetPerson" /\ "mail" \notin DOMAIN entry) => ret.val.Mail = Slice(<<>>)

\* C7: for a key whose value is a bare scalar string s, GetString returns s and
\* GetStringSlice returns the one-element slice [s].
C7_ScalarValue ==
    /\ (ret.op = "GetString" /\ ScalarValue) => ret.val = entry[viewKey].s
    /\ (ret.op = "GetStringSlice" /\ ScalarValue) =>
          /\ ~ret.val.isNil
          /\ Len(ret.val.elems) = 1
          /\ ret.val.elems[1] = entry[viewKey].s

C7_Witness ==
    /\ ret.op = "GetStringSlice"
    /\ ScalarValue
    /\ entry[viewKey].s = <<"a", "/">>
    /\ ret.val = Slice(<<<<"a", "/">>>>)

\* the positions of a list that hold a string, and the j-th of them
StringPositions(items) == {i \in 1..Len(items) : items[i].t = "string"}

NthStringPosition(items, j) ==
    CHOOSE i \in StringPositions(items) :
        Cardinality({x \in StringPositions(items) : x <= i}) = j

FirstOfList(items) ==
    IF Len(items) > 0 /\ items[1].t = "string" THEN items[1].s ELSE EmptyStr

\* C8 as stated: for a key whose value is a sequence, GetString returns its
\* first element ("" when empty or not a string) and GetStringSlice returns the
\* full sequence: same length, same elements, same order.
C8_FullSequence ==
    /\ (ret.op = "GetString" /\ ListValue) => ret.val = FirstOfList(entry[viewKey].items)
    /\ (ret.op = "GetStringSlice" /\ ListValue) =>
          /\ ~ret.val.isNil
          /\ Len(ret.val.elems) = Len(entry[viewKey].items)
          /\ \A i \in 1..Len(ret.val.elems) :
                AnyString(ret.val.elems[i]) = entry[viewKey].items[i]

\* C8 amended: GetStringSlice returns the string elements of the sequence, in
\* stored order, and skips the elements that are not strings; it is the full
\* sequence when every element is a string.
C8_StringElementsInOrder ==
    /\ (ret.op = "GetString" /\ ListValue) => ret.val = FirstOfList(entry[viewKey].items)
    /\ (ret.op = "GetStringSlice" /\ ListValue) =>
          LET items == entry[viewKey].items IN
          /\ ~ret.val.isNil
          /\ Len(ret.val.elems) = Cardinality(StringPositions(items))
          /\ \A j \in 1..Len(ret.val.elems) :
                ret.val.elems[j] = items[NthStringPosition(items, j)].s
          /\ (StringPositions(items) = 1..Len(items)) =>
                /\ Len(ret.val.elems) = Len(items)
                /\ \A i \in 1..Len(items) : ret.val.elems[i] = items[i].s

C8_Witness ==
    /\ ret.op = "GetStringSlice"
    /\ ListValue
    /\ entry[viewKey].items = <<AnyNumber, AnyString(<<"a">>)>>
    /\ ret.val = Slice(<<<<"a">>>>)

\* the string GetOAuth2Client reads for oauth2_rs_origin: the scalar, or the
\* first element of the list
HasServerOrigin ==
    /\ "oauth2_rs_origin" \in DOMAIN entry
    /\ \/ entry["oauth2_rs_origin"].t = "string"
       \/ /\ entry["oauth2_rs_origin"].t = "[]any"
          /\ Len(entry["oauth2_rs_origin"].items) > 0
          /\ entry["oauth2_rs_origin"].items[1].t = "string"

ServerOrigin ==
    IF entry["oauth2_rs_origin"].t = "string"
    THEN entry["oauth2_rs_origin"].s
    ELSE entry["oauth2_rs_origin"].items[1].s

EndsInSlash(s) == Len(s) > 0 /\ s[Len(s)] = "/"

\* C10: the Origin GetOAuth2Client returns is the server value without its last
\* character when that value ends in "/", and the server value otherwise: one
\* trailing slash is removed, never more.
C10_OneTrailingSlashTrimmed ==
    (ret.op = "GetOAuth2Client" /\ HasServerOrigin) =>
        /\ EndsInSlash(ServerOrigin) => ret.val.Origin \o <<"/">> = ServerOrigin
        /\ ~EndsInSlash(ServerOrigin) => ret.val.Origin = ServerOrigin

C10_Witness ==
    /\ ret.op = "GetOAuth2Client"
    /\ HasServerOrigin
    /\ ServerOrigin = <<"/", "/">>
    /\ ret.val.Origin = <<"/">>

----------------------------------------------------------------------------
(* Properties of the OAuth2 client API *)

\* C1: whenever CreateOAuth2BasicClient returns without error, whatever the
\* server answered to the creation POST and to the secret GET among the
\* answers classified as success, the returned ClientSecret is non-empty.
C1_CreatedSecretNonEmpty ==
    (ret.op = "CreateOAuth2BasicClient" /\ ~IsErr(ret.err)) =>
        ret.val.ClientSecret # EmptyStr

\* C3: two GetOAuth2BasicSecret calls in succession return the same value; a
\* GetOAuth2BasicSecret right after a RegenerateOAuth2BasicSecret returns the
\* value the regeneration returned, and that value differs from the one read
\* right before the regeneration.
C3_SecretStableUntilRegenerated ==
    /\ \A i \in 1..2 :
          (hist[i].op = "get" /\ hist[i + 1].op = "get" /\ hist[i].name = hist[i + 1].name)
              => hist[i + 1].val = hist[i].val
    /\ \A i \in 1..2 :
          (hist[i].op = "regen" /\ hist[i + 1].op = "get" /\ hist[i].name = hist[i + 1].name)
              => hist[i + 1].val = hist[i].val
    /\ (/\ hist[1].op = "get" /\ hist[2].op = "regen" /\ hist[3].op = "get"
        /\ hist[1].name = hist[2].name /\ hist[2].name = hist[3].name)
          => hist[3].val # hist[1].val

C3_Witness ==
    /\ hist[1] = Call("get", <<"c">>, SecretStr(1))
    /\ hist[2] = Call("regen", <<"c">>, SecretStr(2))
    /\ hist[3] = Call("get", <<"c">>, SecretStr(2))

\* C5: GetOAuth2Client reports a client created with CreateOAuth2BasicClient as
\* confidential and one created with CreateOAuth2PublicClient as public,
\* after any sequence of updates, scope-map calls, secret retrievals and
\* regenerations.
C5_KindFixedAtCreation ==
    (ret.op = "GetOAuth2Client" /\ ~IsErr(ret.err) /\ createdAs[ret.name] # "none") =>
        ret.val.IsPublic = (createdAs[ret.name] = "public")

C5_Witness ==
    /\ ret.op = "GetOAuth2Client"
    /\ ~IsErr(ret.err)
    /\ createdAs[ret.name] = "basic"
    /\ ret.val.IsPublic = FALSE
    /\ srv.oauth2[ret.name].secret = SecretStr(2)
    /\ "oauth2_rs_origin" \in DOMAIN srv.oauth2[ret.name].attrs
    /\ srv.oauth2[ret.name].scopemap # NoStored

----------------------------------------------------------------------------
(* Properties of the kanidm_oauth2_basic resource *)

RetrievalOps ==
    {"CreateOAuth2BasicClient", "GetOAuth2BasicSecret",
     "oauth2BasicResource.Create", "oauth2BasicResource.Read",
     "oauth2BasicResource.Update", "oauth2BasicResource.Delete",
     "oauth2BasicResource.ImportState"}

SecretChanged(n) ==
    /\ srv.oauth2[n].exists
    /\ srv'.oauth2[n].exists
    /\ srv'.oauth2[n].secret # srv.oauth2[n].secret

\* C2: no execution of CreateOAuth2BasicClient, GetOAuth2BasicSecret or of a
\* handler of the kanidm_oauth2_basic resource sends a POST to
\* /v1/oauth2/{name}/_basic_secret, and the secret the server holds for a client
\* changes only in a RegenerateOAuth2BasicSecret call.
C2_RegenerateOnlyWhenAsked ==
    [][/\ ret'.op \in RetrievalOps =>
            \A i \in DOMAIN secretReqs' : secretReqs'[i] # "POST"
       /\ \A n \in OAuth2Names :
            SecretChanged(n) => ret'.op = "RegenerateOAuth2BasicSecret"]_vars

C2_Witness ==
    /\ ret.op = "oauth2BasicResource.Read"
    /\ secretReqs = <<"GET">>
    /\ tfOAuth2.present
    /\ tfOAuth2.ScopeMaps.null
    /\ tfOAuth2.ClientSecret = TfString(SecretStr(2))
    /\ srv.oauth2[<<"c">>].secret = SecretStr(2)
----------------------------------------------------------------------------
(* Properties of groups (SpecGroup) *)

GroupWriters == {"groupResource.Create", "groupResource.Read", "groupResource.Update"}

ServerHoldsNoMembers(id) ==
    /\ id \in GroupNames
    /\ srv.group[id].exists
    /\ StoredMembers(srv.group[id]) = <<>>

\* C9: every successful GetGroup returns a non-nil Members slice, which is
\* empty when the group the server holds has no members; and after a
\* successful Create, Read or Update of the kanidm_group resource the members
\* in state are a set, never null, which is empty when the group has no members.
C9_MembersNeverNull ==
    /\ (ret.op = "GetGroup" /\ ~IsErr(ret.err)) =>
            /\ ~ret.val.Members.isNil
            /\ ServerHoldsNoMembers(ret.name) => ret.val.Members = Slice(<<>>)
    /\ (ret.op \in GroupWriters /\ ~IsErr(ret.err) /\ tfGroup.present) =>
            /\ ~tfGroup.Members.null
            /\ ServerHoldsNoMembers(ret.name) => tfGroup.Members = TfSet({})

C9_Witness ==
    /\ ret.op = "groupResource.Create"
    /\ ~IsErr(ret.err)
    /\ ServerHoldsNoMembers(ret.name)
    /\ "member" \notin DOMAIN srv.group[ret.name].attrs
    /\ tfGroup.present
    /\ tfGroup.Members = TfSet({})

----------------------------------------------------------------------------
(* The client API observed with the arguments of each call and the         *)
(* exchanges it made                                                       *)

\* a call as a scenario keeps it: the operation, its arguments and whether it
\* succeeded
Done(op, name, args, err) == Call(op, name, [args |-> args, ok |-> ~IsErr(err)])

\* a scenario goes on for ever; any other observer sees at most MaxCalls calls
CallsLeft(obs) == obs = "calls" \/ call.n < MaxCalls

\* one call of the client API: obs "calls" keeps the last three calls, any
\* other observer keeps the arguments and the exchanges of the last call
ClientStep(obs, op, name, args, r) ==
    /\ srv' = r.w.srv
    /\ secretReqs' = SecretRequests(r.w.log)
    /\ ret' = Ret(op, name, r.err, r.val)
    /\ call' = IF obs = "calls" THEN NoCallInfo
               ELSE [args |-> args, exch |-> Exchanges(r.w.log), n |-> call.n + 1]
    /\ hist' = IF obs = "calls" THEN Push(hist, Done(op, name, args, r.err)) ELSE hist
    /\ UNCHANGED <<createdAs, viewVars, tfVars, conc>>

ClCreateOAuth2BasicClient(modes, obs) ==
    \E name \in OAuth2Names, displayName \in DisplayNames, origin \in Origins,
       ft \in Faults(modes, 2) :
        /\ CallsLeft(obs)
        /\ LET r == CreateOAuth2BasicClient(World(srv), ft, name, displayName, origin)
           IN ClientStep(obs, "CreateOAuth2BasicClient", name,
                         [displayName |-> displayName, origin |-> origin], r)
              /\ SecretsInBound(r.w.srv)

ClCreateOAuth2PublicClient(modes, obs) ==
    \E name \in OAuth2Names, displayName \in DisplayNames, origin \in Origins,
       ft \in Faults(modes, 1) :
        /\ CallsLeft(obs)
        /\ LET r == CreateOAuth2PublicClient(World(srv), ft, name, displayName, origin)
           IN ClientStep(obs, "CreateOAuth2PublicClient", name,
                         [displayName |-> displayName, origin |-> origin], r)

ClGetOAuth2Client(modes, obs) ==
    \E name \in OAuth2Names, ft \in Faults(modes, 1) :
        /\ CallsLeft(obs)
        /\ LET r == GetOAuth2Client(World(srv), ft, name)
           IN ClientStep(obs, "GetOAuth2Client", name, <<>>, r)

ClUpdateOAuth2Client(modes, obs) ==
    \E name \in OAuth2Names, displayName \in DisplayNames, origin \in Origins,
       redirectURIs \in RedirectInputs, ft \in Faults(modes, 1) :
        /\ CallsLeft(obs)
        /\ LET r == UpdateOAuth2Client(World(srv), ft, name, displayName, origin, redirectURIs)
           IN ClientStep(obs, "UpdateOAuth2Client", name,
                         [displayName |-> displayName, origin |-> origin,
                          redirectURIs |-> redirectURIs], r)

ClDeleteOAuth2Client(modes, obs) ==
    \E name \in OAuth2Names, ft \in Faults(modes, 1) :
        /\ CallsLeft(obs)
        /\ LET r == DeleteOAuth2Client(World(srv), ft, name)
           IN ClientStep(obs, "DeleteOAuth2Client", name, <<>>, r)

\* scenarios of the OAuth2 client operations against a server that answers
\* as Kanidm does
NextOAuth2Scenario ==
    \/ ClCreateOAuth2BasicClient({"ok"}, "calls")
    \/ ClCreateOAuth2PublicClient({"ok"}, "calls")
    \/ ClGetOAuth2Client({"ok"}, "calls")
    \/ ClDeleteOAuth2Client({"ok"}, "calls")



SpecOAuth2Scenario == Init /\ [][NextOAuth2Scenario]_vars

ClCreateGroup(modes, obs) ==
    \E id \in GroupNames, description \in GroupDescriptions, ft \in Faults(modes, 1) :
        /\ CallsLeft(obs)
        /\ LET r == CreateGroup(World(srv), ft, id, description)
           IN ClientStep(obs, "CreateGroup", id, [description |-> description], r)

ClGetGroup(modes, obs) ==
    \E id \in GroupNames, ft \in Faults(modes, 1) :
        /\ CallsLeft(obs)
        /\ LET r == GetGroup(World(srv), ft, id)
           IN ClientStep(obs, "GetGroup", id, <<>>, r)

ClUpdateGroup(modes, obs) ==
    \E id \in GroupNames, description \in GroupDescriptions, members \in MemberInputs,
       ft \in Faults(modes, 1) :
        /\ CallsLeft(obs)
        /\ LET r == UpdateGroup(World(srv), ft, id, description, members)
           IN ClientStep(obs, "UpdateGroup", id,
                         [description |-> description, members |-> members], r)

ClDeleteGroup(modes, obs) ==
    \E id \in GroupNames, ft \in Faults(modes, 1) :
        /\ CallsLeft(obs)
        /\ LET r == DeleteGroup(World(srv), ft, id)
           IN ClientStep(obs, "DeleteGroup", id, <<>>, r)

ClAddGroupMembers(modes, obs) ==
    \E id \in GroupNames, members \in MemberInputs, ft \in Faults(modes, 1) :
        /\ CallsLeft(obs)
        /\ LET r == AddGroupMembers(World(srv), ft, id, members)
           IN ClientStep(obs, "AddGroupMembers", id, [members |-> members], r)

ClRemoveGroupMembers(modes, obs) ==
    \E id \in GroupNames, members \in MemberInputs, ft \in Faults(modes, 1) :
        /\ CallsLeft(obs)
        /\ LET r == RemoveGroupMembers(World(srv), ft, id, members)
           IN ClientStep(obs, "RemoveGroupMembers", id, [members |-> members], r)

ClSetOAuth2ScopeMap(modes, obs) ==
    \E name \in OAuth2Names, group \in ScopeGroups, scopes \in ScopeInputs,
       ft \in Faults(modes, 1) :
        /\ CallsLeft(obs)
        /\ LET r == SetOAuth2ScopeMap(World(srv), ft, name, group, scopes)
           IN ClientStep(obs, "SetOAuth2ScopeMap", name, [group |-> group, scopes |-> scopes], r)

ClDeleteOAuth2ScopeMap(modes, obs) ==
    \E name \in OAuth2Names, group \in ScopeGroups, ft \in Faults(modes, 1) :
        /\ CallsLeft(obs)
        /\ LET r == DeleteOAuth2ScopeMap(World(srv), ft, name, group)
           IN ClientStep(obs, "DeleteOAuth2ScopeMap", name, [group |-> group], r)

ClGetOAuth2BasicSecret(modes, obs) ==
    \E name \in OAuth2Names, ft \in Faults(modes, 1) :
        /\ CallsLeft(obs)
        /\ LET r == GetOAuth2BasicSecret(World(srv), ft, name)
           IN ClientStep(obs, "GetOAuth2BasicSecret", name, <<>>, r)

ClRegenerateOAuth2BasicSecret(modes, obs) ==
    \E name \in OAuth2Names, ft \in Faults(modes, 1) :
        /\ CallsLeft(obs)
        /\ LET r == RegenerateOAuth2BasicSecret(World(srv), ft, name)
           IN ClientStep(obs, "RegenerateOAuth2BasicSecret", name, <<>>, r)
              /\ SecretsInBound(r.w.srv)

MailInputs == {NilSlice, Slice(<<>>), Slice(<<<<"e">>>>)}

Passwords == {<<"w">>}

ClCreatePerson(modes, obs) ==
    \E id \in PersonNames, displayName \in DisplayNames, ft \in Faults(modes, 1) :
        /\ CallsLeft(obs)
        /\ LET r == CreatePerson(World(srv), ft, id, displayName)
           IN ClientStep(obs, "CreatePerson", id, [displayName |-> displayName], r)

ClGetPerson(modes, obs) ==
    \E id \in PersonNames, ft \in Faults(modes, 1) :
        /\ CallsLeft(obs)
        /\ LET r == GetPerson(World(srv), ft, id)
           IN ClientStep(obs, "GetPerson", id, <<>>, r)

ClUpdatePerson(modes, obs) ==
    \E id \in PersonNames, displayName \in DisplayNames, mail \in MailInputs,
       ft \in Faults(modes, 1) :
        /\ CallsLeft(obs)
        /\ LET r == UpdatePerson(World(srv), ft, id, displayName, mail)
           IN ClientStep(obs, "UpdatePerson", id, [displayName |-> displayName, mail |-> mail], r)

ClDeletePerson(modes, obs) ==
    \E id \in PersonNames, ft \in Faults(modes, 1) :
        /\ CallsLeft(obs)
        /\ LET r == DeletePerson(World(srv), ft, id)
           IN ClientStep(obs, "DeletePerson", id, <<>>, r)

ClSetPersonPassword(modes, obs) ==
    \E id \in PersonNames, password \in Passwords, ft \in Faults(modes, 1) :
        /\ CallsLeft(obs)
        /\ LET r == SetPersonPassword(World(srv), ft, id, password)
           IN ClientStep(obs, "SetPersonPassword", id, [password |-> password], r)

ClCreateServiceAccount(modes, obs) ==
    \E name \in ServiceAccountNames, ft \in Faults(modes, 2) :
        /\ CallsLeft(obs)
        /\ LET r == CreateServiceAccount(World(srv), ft, name)
           IN ClientStep(obs, "CreateServiceAccount", name, <<>>, r)

ClGetServiceAccount(modes, obs) ==
    \E id \in ServiceAccountNames, ft \in Faults(modes, 1) :
        /\ CallsLeft(obs)
        /\ LET r == GetServiceAccount(World(srv), ft, id)
           IN ClientStep(obs, "GetServiceAccount", id, <<>>, r)

ClUpdateServiceAccount(modes, obs) ==
    \E id \in ServiceAccountNames, displayName \in DisplayNames, ft \in Faults(modes, 1) :
        /\ CallsLeft(obs)
        /\ LET r == UpdateServiceAccount(World(srv), ft, id, displayName)
           IN ClientStep(obs, "UpdateServiceAccount", id, [displayName |-> displayName], r)

ClDeleteServiceAccount(modes, obs) ==
    \E id \in ServiceAccountNames, ft \in Faults(modes, 1) :
        /\ CallsLeft(obs)
        /\ LET r == DeleteServiceAccount(World(srv), ft, id)
           IN ClientStep(obs, "DeleteServiceAccount", id, <<>>, r)

ClGenerateServiceAccountToken(modes, obs) ==
    \E id \in ServiceAccountNames, ft \in Faults(modes, 1) :
        /\ CallsLeft(obs)
        /\ LET r == GenerateServiceAccountToken(World(srv), ft, id, "terraform-managed", NilExpiry)
           IN ClientStep(obs, "GenerateServiceAccountToken", id, <<>>, r)

\* every operation of the client
NextClient(modes, obs) ==
    \/ ClCreateOAuth2BasicClient(modes, obs)
    \/ ClCreateOAuth2PublicClient(modes, obs)
    \/ ClGetOAuth2Client(modes, obs)
    \/ ClUpdateOAuth2Client(modes, obs)
    \/ ClDeleteOAuth2Client(modes, obs)
    \/ ClSetOAuth2ScopeMap(modes, obs)
    \/ ClDeleteOAuth2ScopeMap(modes, obs)
    \/ ClGetOAuth2BasicSecret(modes, obs)
    \/ ClRegenerateOAuth2BasicSecret(modes, obs)
    \/ ClCreateGroup(modes, obs)
    \/ ClGetGroup(modes, obs)
    \/ ClUpdateGroup(modes, obs)
    \/ ClDeleteGroup(modes, obs)
    \/ ClAddGroupMembers(modes, obs)
    \/ ClRemoveGroupMembers(modes, obs)
    \/ ClCreatePerson(modes, obs)
    \/ ClGetPerson(modes, obs)
    \/ ClUpdatePerson(modes, obs)
    \/ ClDeletePerson(modes, obs)
    \/ ClSetPersonPassword(modes, obs)
    \/ ClCreateServiceAccount(modes, obs)
    \/ ClGetServiceAccount(modes, obs)
    \/ ClUpdateServiceAccount(modes, obs)
    \/ ClDeleteServiceAccount(modes, obs)
    \/ ClGenerateServiceAccountToken(modes, obs)

\* a server holding one resource of every kind, each created and filled
\* through the client
PopulatedSrv ==
    LET a == CreateOAuth2BasicClient(World(InitSrv), NoFault, <<"c">>, <<"d">>, <<"a", "/">>).w
        b == UpdateOAuth2Client(a, NoFault, <<"c">>, EmptyStr, <<"a", "/">>,
                                Slice(<<<<"a">>>>)).w
        c == CreateGroup(b, NoFault, <<"g">>, <<"d">>).w
        d == AddGroupMembers(c, NoFault, <<"g">>, Slice(<<<<"m">>, <<"n">>>>)).w
        e == CreatePerson(d, NoFault, <<"p">>, <<"d">>).w
        f == UpdatePerson(e, NoFault, <<"p">>, EmptyStr, Slice(<<<<"e">>>>)).w
        g == CreateServiceAccount(f, NoFault, <<"v">>).w
    IN g.srv

ClientServers == {InitSrv, PopulatedSrv}

InitClient ==
    /\ srv \in ClientServers
    /\ hist = NoHist
    /\ createdAs = [n \in OAuth2Names |-> "none"]
    /\ secretReqs = <<>>
    /\ call = NoCallInfo
    /\ tfOAuth2 = NoOAuth2State
    /\ tfGroup = NoGroupState
    /\ tfPerson = NoPersonState
    /\ tfServiceAccount = NoServiceAccountState
    /\ conc = NoConc
    /\ ret = NoRet
    /\ entry = NoAttrs
    /\ viewKey = "name"

\* what one exchange of a client call can do besides the server's own answer
ClientModes == {"ok", "transport", "401", "403", "404", "500", "200:null", "200:malformed"}

\* calls against the empty or the populated server, each exchange answered by
\* the server or failed
NextCalls == NextClient(ClientModes, "exch")

SpecClient == InitClient /\ [][NextCalls]_vars

\* scenarios of the group operations against a server that answers as Kanidm
\* does
NextGroupScenario ==
    \/ ClCreateGroup({"ok"}, "calls")
    \/ ClGetGroup({"ok"}, "calls")
    \/ ClUpdateGroup({"ok"}, "calls")
    \/ ClDeleteGroup({"ok"}, "calls")
    \/ ClAddGroupMembers({"ok"}, "calls")
    \/ ClRemoveGroupMembers({"ok"}, "calls")

SpecGroupScenario == Init /\ [][NextGroupScenario]_vars

----------------------------------------------------------------------------
(* Creates of more than one exchange: the two-step creates of the client   *)
(* and the Create handlers of the resources                                *)

PersonPlans ==
    {[present |-> TRUE, ID |-> TfString(id), DisplayName |-> TfString(<<"d">>),
      Mail |-> mail, Password |-> password, GenerateCredentialResetToken |-> generate,
      CredentialResetToken |-> TfNullString] :
        id \in PersonNames,
        mail \in {TfNullList, TfList(<<<<"e">>>>)},
        password \in {TfNullString, TfString(<<"w">>)},
        generate \in BOOLEAN}

\* the Create handler of kanidm_oauth2_basic, observed with its exchanges
ResOAuth2CreateExchanges(modes) ==
    /\ ~tfOAuth2.present
    /\ call.n < MaxCalls
    /\ \E plan \in OAuth2Plans, order \in Orders(ScopeGroups),
          ft \in Faults(modes, 4 + Cardinality(ScopeGroups)) :
        Bind(OAuth2BasicCreate(World(srv), ft, plan, order),
             LAMBDA h :
        /\ SecretsInBound(h.w.srv)
        /\ srv' = h.w.srv
        /\ secretReqs' = SecretRequests(h.w.log)
        /\ call' = [args |-> <<>>, exch |-> Exchanges(h.w.log), n |-> call.n + 1]
        /\ tfOAuth2' = IF IsErr(h.diag) THEN tfOAuth2 ELSE h.state
        /\ ret' = Ret("oauth2BasicResource.Create", plan.Name.v, h.diag, EmptyStr)
        /\ UNCHANGED <<hist, createdAs, viewVars, tfGroup, tfPerson, tfServiceAccount, conc>>)

ResPersonCreate(modes) ==
    /\ ~tfPerson.present
    /\ call.n < MaxCalls
    /\ \E plan \in PersonPlans, ft \in Faults(modes, 4) :
        Bind(PersonCreate(World(srv), ft, plan),
             LAMBDA h :
        /\ srv' = h.w.srv
        /\ secretReqs' = SecretRequests(h.w.log)
        /\ call' = [args |-> <<>>, exch |-> Exchanges(h.w.log), n |-> call.n + 1]
        /\ tfPerson' = IF IsErr(h.diag) THEN tfPerson ELSE h.state
        /\ ret' = Ret("personResource.Create", plan.ID.v, h.diag, EmptyStr)
        /\ UNCHANGED <<hist, createdAs, viewVars, tfOAuth2, tfGroup, tfServiceAccount, conc>>)

\* what an exchange of a create can do besides the server's own answer
CreateModes == {"ok", "transport", "401", "403", "404", "500", "200:malformed"}

NextCreates ==
    \/ ClCreateOAuth2BasicClient(CreateModes, "exch")
    \/ ClCreateServiceAccount(CreateModes, "exch")
    \/ ResOAuth2CreateExchanges(CreateModes)
    \/ ResPersonCreate(CreateModes)

SpecCreates == Init /\ [][NextCreates]_vars

----------------------------------------------------------------------------
(* checkResponse applied to every status and to an empty or non-empty body *)

Statuses == MinStatus..MaxStatus

ResponseTexts == {EmptyStr, <<"a">>}

CheckResponse ==
    \E status \in Statuses, body \in ResponseTexts :
        /\ ret' = Ret("checkResponse", EmptyStr, checkResponse(status),
                      checkResponseText(status, body))
        /\ call' = [args |-> [status |-> status, body |-> body], exch |-> <<>>, n |-> 0]
        /\ UNCHANGED <<srv, hist, createdAs, secretReqs, viewVars, tfVars, conc>>

NextTransport == CheckResponse

SpecTransport == Init /\ [][NextTransport]_vars

----------------------------------------------------------------------------
(* Scenario properties *)

\* the call before the last one created a confidential client with the
\* origin "a/", and the last call read that client back
CreatedThenRead ==
    /\ hist[2].op = "CreateOAuth2BasicClient"
    /\ hist[2].val.ok
    /\ hist[2].val.args.origin = <<"a", "/">>
    /\ hist[3].op = "GetOAuth2Client"
    /\ hist[3].name = hist[2].name
    /\ hist[3].val.ok

\* C11: after CreateOAuth2BasicClient(name, displayName, "a/") against a server
\* that stores the submitted attributes under the keys they were sent with, a
\* GetOAuth2Client of that name returns Origin "a" (the origin without its
\* trailing slash) and IsPublic false.
C11_CreatedOriginReadBack ==
    CreatedThenRead => (ret.val.Origin = <<"a">> /\ ~ret.val.IsPublic)

\* the part of C11 the code keeps: the client read back is confidential
C11_ReadBackConfidential ==
    CreatedThenRead => ~ret.val.IsPublic

\* the read-back after such a creation has an empty Origin: the origin was
\* sent, and is held, under oauth2_rs_origin_landing
C11_OriginLost ==
    /\ CreatedThenRead
    /\ ret.val.Origin = EmptyStr
    /\ ret.val.RedirectURIs = Slice(<<<<"a", "/">>>>)
    /\ ~ret.val.IsPublic

\* the last three calls created the group with the description "d", added the
\* members m and n to it, and read it back
CreatedFilledThenRead ==
    /\ hist[1].op = "CreateGroup"
    /\ hist[1].val.ok
    /\ hist[1].val.args.description = <<"d">>
    /\ hist[2].op = "AddGroupMembers"
    /\ hist[2].name = hist[1].name
    /\ hist[2].val.ok
    /\ hist[2].val.args.members = Slice(<<<<"m">>, <<"n">>>>)
    /\ hist[3].op = "GetGroup"
    /\ hist[3].name = hist[1].name
    /\ hist[3].val.ok

----------------------------------------------------------------------------
(* Properties of single calls *)

\* the attributes the only exchange of the last call carried
SentKeys == DOMAIN call.exch[1].payload.attrs

\* the last call was an update that named nothing to change, and succeeded
EmptyUpdate ==
    /\ ~IsErr(ret.err)
    /\ \/ /\ ret.op = "UpdatePerson"
          /\ call.args.displayName = EmptyStr
          /\ call.args.mail.isNil
       \/ /\ ret.op = "UpdateGroup"
          /\ call.args.description = EmptyStr
          /\ call.args.members.isNil
       \/ /\ ret.op = "UpdateOAuth2Client"
          /\ call.args.displayName = EmptyStr
          /\ call.args.origin = EmptyStr
          /\ call.args.redirectURIs.isNil

\* what the Get that belongs to an update returns from server s
ReadBack(op, name, s) ==
    CASE op = "UpdatePerson" -> GetPerson(World(s), NoFault, name)
      [] op = "UpdateGroup" -> GetGroup(World(s), NoFault, name)
      [] op = "UpdateOAuth2Client" -> GetOAuth2Client(World(s), NoFault, name)

\* C13: UpdatePerson sends displayname exactly when the display name is not
\* empty and mail exactly when the mail slice is not nil; UpdateGroup does so
\* for description and member, UpdateOAuth2Client for displayname,
\* oauth2_rs_origin and oauth2_rs_origin_landing. A successful update with
\* empty strings and nil slices leaves the resource as a Get returns it
\* unchanged.
C13_EmptyArgumentsChangeNothing ==
    [][ /\ ret'.op = "UpdatePerson" =>
            /\ ("displayname" \in SentKeys') <=> (call'.args.displayName # EmptyStr)
            /\ ("mail" \in SentKeys') <=> ~call'.args.mail.isNil
        /\ ret'.op = "UpdateGroup" =>
            /\ ("description" \in SentKeys') <=> (call'.args.description # EmptyStr)
            /\ ("member" \in SentKeys') <=> ~call'.args.members.isNil
        /\ ret'.op = "UpdateOAuth2Client" =>
            /\ ("displayname" \in SentKeys') <=> (call'.args.displayName # EmptyStr)
            /\ ("oauth2_rs_origin" \in SentKeys') <=> (call'.args.origin # EmptyStr)
            /\ ("oauth2_rs_origin_landing" \in SentKeys') <=> ~call'.args.redirectURIs.isNil
        /\ EmptyUpdate' =>
            ReadBack(ret'.op, ret'.name, srv') = ReadBack(ret'.op, ret'.name, srv) ]_vars

C13_Witness ==
    /\ EmptyUpdate
    /\ ret.op = "UpdatePerson"
    /\ SentKeys = {}
    /\ GetPerson(World(srv), NoFault, ret.name).val =
            [ID |-> <<"p">>, DisplayName |-> <<"d">>, Mail |-> Slice(<<<<"e">>>>)]

Classified == ret.op = "checkResponse"

\* C14: a status from 200 to 299 is success; 401 is ErrUnauthorized, 403 is
\* ErrForbidden and 404 is ErrNotFound; every other status is a generic API
\* error whose text carries the status code, and the body text when the body
\* is not empty. No status outside 200..299 is reported as success.
C14_StatusClassification ==
    Classified =>
        LET status == call.args.status
            body == call.args.body
        IN /\ (status \in 200..299) <=> ~IsErr(ret.err)
           /\ status = 401 => ret.err = Err("ErrUnauthorized")
           /\ status = 403 => ret.err = Err("ErrForbidden")
           /\ status = 404 => ret.err = Err("ErrNotFound")
           /\ status \notin (200..299) \cup {401, 403, 404} =>
                /\ ret.err = Err("API error")
                /\ ret.val.code = status
                /\ ret.val.body = body
                /\ ret.val.format = IF body # EmptyStr THEN "API error (HTTP %d): %s"
                                    ELSE "API error (HTTP %d)"

C14_Witness ==
    /\ Classified
    /\ call.args.status = 403
    /\ ret.err = Err("ErrForbidden")

\* a generic error with its status and its body text
C14_WitnessGeneric ==
    /\ Classified
    /\ call.args.status = 500
    /\ call.args.body = <<"a">>
    /\ ret.val = ErrorText("API error (HTTP %d): %s", 500, <<"a">>)

\* C15: whatever a client operation returns (success, an error classified
\* from the status, a decode failure), the body of every response one of its
\* exchanges received has been closed.
C15_BodiesClosed ==
    \A i \in DOMAIN call.exch : call.exch[i].body # "open"

\* an operation of two exchanges whose second response could not be decoded:
\* both bodies are closed
C15_Witness ==
    /\ ret.op = "CreateServiceAccount"
    /\ ret.err.kind = "decode"
    /\ Len(call.exch) = 2
    /\ call.exch[1].status = 200
    /\ call.exch[2].status = 200
    /\ call.exch[1].body = "closed"
    /\ call.exch[2].body = "closed"

\* the other outcomes: a success and a failure classified from the status
C15_WitnessOutcomes ==
    \/ ret.op = "GetPerson" /\ ~IsErr(ret.err) /\ call.exch[1].body = "closed"
    \/ ret.op = "DeleteGroup" /\ ret.err.kind = "ErrForbidden" /\ call.exch[1].body = "closed"

\* the operation name each delete operation wraps its error with
DeleteContext ==
    [op \in {"DeletePerson", "DeleteGroup", "DeleteServiceAccount", "DeleteOAuth2Client"} |->
        CASE op = "DeletePerson" -> "delete person"
          [] op = "DeleteGroup" -> "delete group"
          [] op = "DeleteServiceAccount" -> "delete service account"
          [] op = "DeleteOAuth2Client" -> "delete oauth2 client"]

\* the last call was a delete and the server answered its DELETE with 404
DeleteNotFound ==
    /\ ret.op \in DOMAIN DeleteContext
    /\ call.exch[1].method = "DELETE"
    /\ call.exch[1].status = 404

\* C16: when the server answers 404 to the DELETE, DeletePerson, DeleteGroup,
\* DeleteServiceAccount and DeleteOAuth2Client return an error, and that error
\* matches ErrNotFound (errors.Is) under the operation's name.
C16_DeleteNotFoundSurfaced ==
    DeleteNotFound =>
        /\ IsErr(ret.err)
        /\ ErrorsIs(ret.err, "ErrNotFound")
        /\ ret.err.wraps = <<DeleteContext[ret.op]>>

\* a delete of a service account the server does not hold
C16_Witness ==
    /\ DeleteNotFound
    /\ ret.op = "DeleteServiceAccount"
    /\ ~srv.service_account[ret.name].exists
    /\ ret.err = Wrap("delete service account", Err("ErrNotFound"))

TwoStepCreates == {"CreateOAuth2BasicClient", "CreateServiceAccount"}

\* the last call was a two-step create whose creation POST succeeded and whose
\* follow-up (secret fetch, token mint) failed
CreatedButIncomplete ==
    /\ ret.op \in TwoStepCreates
    /\ IsErr(ret.err)
    /\ Len(call.exch) = 2
    /\ call.exch[1].status \in 200..299

\* the error kinds a failure of the creation POST itself can have
CreationFailureKinds ==
    {CreateServiceAccount(World(InitSrv), [k |-> 1, m |-> m], <<"v">>).err.kind :
        m \in ClientModes \ {"ok", "200:null", "200:malformed"}}
    \cup {CreateOAuth2BasicClient(World(InitSrv), [k |-> 1, m |-> m], <<"c">>, EmptyStr,
                                  EmptyStr).err.kind :
            m \in ClientModes \ {"ok", "200:null", "200:malformed"}}

\* C17: when the creation POST of CreateOAuth2BasicClient or
\* CreateServiceAccount succeeds and the follow-up secret fetch or token mint
\* fails, the error returned has a kind that no failure of the creation POST
\* has, whatever the follow-up failed with (401, 403 and 404 included).
C17_IncompleteDistinctByKind ==
    CreatedButIncomplete => ret.err.kind \notin CreationFailureKinds

\* what the code does provide: the error of a failed follow-up names the
\* follow-up step as its outermost context
C17_IncompleteNamedInText ==
    CreatedButIncomplete =>
        ret.err.wraps[1] \in {"retrieve client secret", "generate initial token"}

\* a follow-up answered 403 returns an error of the kind a creation POST
\* answered 403 returns
C17_SameKind ==
    /\ CreatedButIncomplete
    /\ call.exch[2].status = 403
    /\ ErrorsIs(ret.err, "ErrForbidden")
    /\ "ErrForbidden" \in CreationFailureKinds

MultiStepCreates ==
    {"CreateOAuth2BasicClient", "CreateServiceAccount", "oauth2BasicResource.Create",
     "personResource.Create"}

\* the last call was a create of several steps whose creation POST succeeded
CreationPosted ==
    /\ ret.op \in MultiStepCreates
    /\ Len(call.exch) >= 1
    /\ call.exch[1].method = "POST"
    /\ call.exch[1].status \in 200..299

\* an exchange after the creation POST got no response or an error status
LaterStepFailed == \E i \in 2..Len(call.exch) : call.exch[i].status \notin 200..299

\* the create returned nothing: no result from a client operation, no state
\* written by a handler
NothingReturned ==
    CASE ret.op = "CreateOAuth2BasicClient" ->
            ret.val.Name = EmptyStr /\ ret.val.ClientSecret = EmptyStr
      [] ret.op = "CreateServiceAccount" ->
            ret.val.ID = EmptyStr /\ ret.val.APIToken = EmptyStr
      [] ret.op = "oauth2BasicResource.Create" -> ~tfOAuth2.present
      [] ret.op = "personResource.Create" -> ~tfPerson.present

\* the server holds the resource the create named
RemainsOnServer ==
    CASE ret.op \in {"CreateOAuth2BasicClient", "oauth2BasicResource.Create"} ->
            srv.oauth2[ret.name].exists
      [] ret.op = "CreateServiceAccount" -> srv.service_account[ret.name].exists
      [] ret.op = "personResource.Create" -> srv.person[ret.name].exists

\* C18: when a step after the successful creation POST fails (secret fetch,
\* token mint, password set, reset-token generation, mail update, scope-map
\* set, read-back), the create returns an error; and a create that returns an
\* error after its creation POST succeeded returns no result, writes no
\* Terraform state, has sent no DELETE, and leaves the resource on the server.
C18_CreateNotTransactional ==
    CreationPosted =>
        /\ LaterStepFailed => IsErr(ret.err)
        /\ IsErr(ret.err) =>
            /\ NothingReturned
            /\ \A i \in DOMAIN call.exch : call.exch[i].method # "DELETE"
            /\ RemainsOnServer

\* the read-back of the person resource's Create fails after the person was
\* created, its password set and its mail updated
C18_Witness ==
    /\ CreationPosted
    /\ ret.op = "personResource.Create"
    /\ Len(call.exch) = 4
    /\ call.exch[4].method = "GET"
    /\ call.exch[4].status = 500
    /\ ret.err.wraps[1] = "Error Reading Person"
    /\ ~tfPerson.present
    /\ srv.person[ret.name].exists
    /\ srv.person[ret.name].password = <<"w">>

\* the last call was CreateServiceAccount, and this is its i-th exchange
MintExchange(i) ==
    /\ call.exch[i].method = "POST"
    /\ call.exch[i].ep = "/v1/service_account/{id}/_api_token"
    /\ call.exch[i].name = ret.name
    /\ call.exch[i].payload.label = "terraform-managed"
    /\ call.exch[i].payload.expiry = "null"

\* one POST /v1/service_account, then one token mint exactly when that POST
\* succeeded, and nothing else
OneCreateThenOneMint ==
    /\ Len(call.exch) \in {1, 2}
    /\ call.exch[1].method = "POST"
    /\ call.exch[1].ep = "/v1/service_account"
    /\ call.exch[1].payload.attrs["name"] = Slice(<<ret.name>>)
    /\ (Len(call.exch) = 2) <=> (call.exch[1].status \in 200..299)
    /\ Len(call.exch) = 2 => MintExchange(2)

\* C19: CreateServiceAccount sends exactly one POST /v1/service_account and,
\* only if it succeeds, exactly one POST /v1/service_account/{name}/_api_token
\* with the label "terraform-managed" and a null expiry, in this order and
\* without a retry; on success it returns the name as ID and as APIToken the
\* token of the mint response, and that token is not empty.
C19_CreateMintsOneToken ==
    ret.op = "CreateServiceAccount" =>
        /\ OneCreateThenOneMint
        /\ ~IsErr(ret.err) =>
            /\ Len(call.exch) = 2
            /\ ret.val.ID = ret.name
            /\ ret.val.APIToken = DecodeToken(call.exch[2].reply).val
            /\ ret.val.APIToken # EmptyStr

\* the part of C19 the code keeps: the exchanges, and the token returned as
\* the mint response carries it
C19_ExchangesAndTokenAsMinted ==
    ret.op = "CreateServiceAccount" =>
        /\ OneCreateThenOneMint
        /\ ~IsErr(ret.err) =>
            /\ Len(call.exch) = 2
            /\ ret.val.ID = ret.name
            /\ ret.val.APIToken = DecodeToken(call.exch[2].reply).val
            /\ call.exch[2].reply.bt = "token" => ret.val.APIToken = call.exch[2].reply.s

\* a mint answered 200 with the body null: success with an empty APIToken
C19_EmptyToken ==
    /\ ret.op = "CreateServiceAccount"
    /\ ~IsErr(ret.err)
    /\ call.exch[2].status = 200
    /\ call.exch[2].reply = JsonNull
    /\ ret.val.APIToken = EmptyStr

\* against the server as the spec describes it, the token returned is the
\* token minted
C19_TokenFromServer ==
    /\ ret.op = "CreateServiceAccount"
    /\ ~IsErr(ret.err)
    /\ ret.val = [ID |-> <<"v">>, APIToken |-> TokenStr]
    /\ srv.service_account[<<"v">>].tokens = {"terraform-managed"}

\* the name each client operation gives its errors; the two-step creates name
\* the step that failed
OperationContexts ==
    [op \in {"CreateOAuth2BasicClient", "CreateOAuth2PublicClient", "GetOAuth2Client",
             "UpdateOAuth2Client", "DeleteOAuth2Client", "SetOAuth2ScopeMap",
             "DeleteOAuth2ScopeMap", "GetOAuth2BasicSecret", "RegenerateOAuth2BasicSecret",
             "CreateGroup", "GetGroup", "UpdateGroup", "DeleteGroup", "AddGroupMembers",
             "RemoveGroupMembers", "CreatePerson", "GetPerson", "UpdatePerson",
             "DeletePerson", "SetPersonPassword", "CreateServiceAccount",
             "GetServiceAccount", "UpdateServiceAccount", "DeleteServiceAccount",
             "GenerateServiceAccountToken"} |->
        CASE op = "CreateOAuth2BasicClient" ->
                {"create oauth2 basic client", "retrieve client secret"}
          [] op = "CreateOAuth2PublicClient" -> {"create oauth2 public client"}
          [] op = "GetOAuth2Client" -> {"get oauth2 client"}
          [] op = "UpdateOAuth2Client" -> {"update oauth2 client"}
          [] op = "DeleteOAuth2Client" -> {"delete oauth2 client"}
          [] op = "SetOAuth2ScopeMap" -> {"set oauth2 scope map"}
          [] op = "DeleteOAuth2ScopeMap" -> {"delete oauth2 scope map"}
          [] op = "GetOAuth2BasicSecret" -> {"get oauth2 basic secret"}
          [] op = "RegenerateOAuth2BasicSecret" -> {"regenerate oauth2 basic secret"}
          [] op = "CreateGroup" -> {"create group"}
          [] op = "GetGroup" -> {"get group"}
          [] op = "UpdateGroup" -> {"update group"}
          [] op = "DeleteGroup" -> {"delete group"}
          [] op = "AddGroupMembers" -> {"add group members"}
          [] op = "RemoveGroupMembers" -> {"remove group members"}
          [] op = "CreatePerson" -> {"create person"}
          [] op = "GetPerson" -> {"get person"}
          [] op = "UpdatePerson" -> {"update person"}
          [] op = "DeletePerson" -> {"delete person"}
          [] op = "SetPersonPassword" -> {"set person password"}
          [] op = "CreateServiceAccount" ->
                {"create service account", "generate initial token"}
          [] op = "GetServiceAccount" -> {"get service account"}
          [] op = "UpdateServiceAccount" -> {"update service account"}
          [] op = "DeleteServiceAccount" -> {"delete service account"}
          [] op = "GenerateServiceAccountToken" -> {"generate api token"}]

\* the last call was a client operation that returned an error
OperationFailed == ret.op \in DOMAIN OperationContexts /\ IsErr(ret.err)

\* the kind of the failure of the last exchange: no response, an error status,
\* or a body that could not be decoded
FailureKind ==
    LET e == call.exch[Len(call.exch)]
    IN IF e.status = 0 THEN "transport"
       ELSE IF e.status \notin 200..299 THEN checkResponse(e.status).kind
       ELSE "decode"

\* C20: whatever fails in a client operation (the transport, a status
\* classified as an error, the decoding of the response body), the error
\* returned has the operation's name as its outermost context and keeps the
\* kind of the failure.
C20_ErrorsCarryOperation ==
    OperationFailed =>
        /\ ret.err.wraps # <<>>
        /\ ret.err.wraps[1] \in OperationContexts[ret.op]
        /\ ret.err.kind = FailureKind

\* the part of C20 the code keeps: the kind is always kept, and transport and
\* status failures carry the operation's name
C20_KindKeptAndContextUnlessDecode ==
    OperationFailed =>
        /\ ret.err.kind = FailureKind
        /\ (FailureKind # "decode" \/ ret.op \in {"CreateOAuth2BasicClient", "CreateServiceAccount"})
              => (ret.err.wraps # <<>> /\ ret.err.wraps[1] \in OperationContexts[ret.op])

\* GetPerson answered 200 with a body that is not JSON: the error names the
\* decoding only
C20_DecodeErrorWithoutOperation ==
    /\ ret.op = "GetPerson"
    /\ call.exch[1].status = 200
    /\ ret.err = Wrap("decode response", Err("decode"))

----------------------------------------------------------------------------
(* Concurrent calls of the scope-map and group-membership operations        *)

\* the operation of a call applied to a world
RaceCall(c, w, ft) ==
    CASE c.op = "SetOAuth2ScopeMap" -> SetOAuth2ScopeMap(w, ft, c.name, c.group, c.list)
      [] c.op = "DeleteOAuth2ScopeMap" -> DeleteOAuth2ScopeMap(w, ft, c.name, c.group)
      [] c.op = "UpdateGroup" -> UpdateGroup(w, ft, c.name, c.description, c.list)
      [] c.op = "AddGroupMembers" -> AddGroupMembers(w, ft, c.name, c.list)
      [] c.op = "RemoveGroupMembers" -> RemoveGroupMembers(w, ft, c.name, c.list)

\* the request the operation of a call hands to doRequest
RequestOf(c) ==
    Bind(RaceCall(c, World(InitSrv), NoFault).w.log[1],
         LAMBDA x : [method |-> x.method, path |-> x.path, payload |-> x.payload])

\* what doRequest met for a call: no response, an error status, or success
OutcomeOf(status) ==
    CASE status = 0 -> "transport"
      [] status = 404 -> "404"
      [] status = 500 -> "500"
      [] OTHER -> "200:null"

\* the error the operation of a call returns once its response has arrived
ReturnOf(c) == RaceCall(c, World(InitSrv), [k |-> 1, m |-> OutcomeOf(c.status)]).err

\* process p calls an operation: the request is built and sent
Starts(p, c) ==
    /\ conc.procs[p].pc = "idle"
    /\ conc' = [conc EXCEPT !.procs[p] = [c EXCEPT !.pc = "sent", !.req = RequestOf(c)]]
    /\ UNCHANGED <<srv, ret, hist, createdAs, secretReqs, call, viewVars, tfVars>>

RaceGroups == {<<"g">>, <<"h">>}

RaceScopes == {Slice(<<<<"a">>>>), Slice(<<<<"b">>>>)}

ConcSetOAuth2ScopeMap(p) ==
    /\ conc.procs[p].pc = "idle"
    /\ \E rsName \in OAuth2Names, groupName \in RaceGroups, scopes \in RaceScopes :
           Starts(p, [NoProc EXCEPT !.op = "SetOAuth2ScopeMap", !.name = rsName,
                                    !.group = groupName, !.list = scopes])

ConcDeleteOAuth2ScopeMap(p) ==
    /\ conc.procs[p].pc = "idle"
    /\ \E rsName \in OAuth2Names, groupName \in RaceGroups :
           Starts(p, [NoProc EXCEPT !.op = "DeleteOAuth2ScopeMap", !.name = rsName,
                                    !.group = groupName])

RaceMembers == {NilSlice, Slice(<<>>), Slice(<<<<"m">>>>), Slice(<<<<"n">>>>)}

ConcUpdateGroup(p) ==
    /\ conc.procs[p].pc = "idle"
    /\ \E id \in GroupNames, description \in {EmptyStr, <<"d">>}, members \in RaceMembers :
           Starts(p, [NoProc EXCEPT !.op = "UpdateGroup", !.name = id,
                                    !.description = description, !.list = members])

ConcAddGroupMembers(p) ==
    /\ conc.procs[p].pc = "idle"
    /\ \E groupID \in GroupNames, memberIDs \in RaceMembers \ {NilSlice} :
           Starts(p, [NoProc EXCEPT !.op = "AddGroupMembers", !.name = groupID,
                                    !.list = memberIDs])

ConcRemoveGroupMembers(p) ==
    /\ conc.procs[p].pc = "idle"
    /\ \E groupID \in GroupNames, memberIDs \in RaceMembers \ {NilSlice} :
           Starts(p, [NoProc EXCEPT !.op = "RemoveGroupMembers", !.name = groupID,
                                    !.list = memberIDs])

\* the request of p does not reach the server, or the server receives it and
\* answers: nothing orders the requests of different calls
ServerReceives(p, modes) ==
    /\ conc.procs[p].pc = "sent"
    /\ \E mode \in modes :
        IF mode = "transport"
        THEN /\ conc' = [conc EXCEPT !.procs[p].pc = "answered", !.procs[p].status = 0]
             /\ UNCHANGED srv
        ELSE Bind(conc.procs[p].req,
                  LAMBDA q :
             Bind(Respond(srv, q.method, q.path, q.payload, mode),
                  LAMBDA r :
             /\ srv' = r.srv
             /\ conc' = [conc EXCEPT !.procs[p].pc = "answered",
                                     !.procs[p].status = r.status,
                                     !.received = IF mode = "ok" THEN Append(@, p) ELSE @]))
    /\ UNCHANGED <<ret, hist, createdAs, secretReqs, call, viewVars, tfVars>>

\* the response of p arrives and its operation returns
Returns(p) ==
    /\ conc.procs[p].pc = "answered"
    /\ conc' = [conc EXCEPT !.procs[p].pc = "done", !.procs[p].err = ReturnOf(conc.procs[p])]
    /\ ret' = Ret(conc.procs[p].op, conc.procs[p].name, ReturnOf(conc.procs[p]), EmptyStr)
    /\ UNCHANGED <<srv, hist, createdAs, secretReqs, call, viewVars, tfVars>>

RaceModes == {"ok", "transport", "500"}

\* servers holding the client c with some scope maps, and the empty server
ScopeMapServers ==
    LET a == CreateOAuth2BasicClient(World(InitSrv), NoFault, <<"c">>, <<"d">>, <<"a", "/">>).w
        b == SetOAuth2ScopeMap(a, NoFault, <<"c">>, <<"g">>, Slice(<<<<"a">>>>)).w
        c == SetOAuth2ScopeMap(b, NoFault, <<"c">>, <<"h">>, Slice(<<<<"b">>>>)).w
    IN {InitSrv, a.srv, b.srv, c.srv}

InitRace(servers) ==
    /\ srv \in servers
    /\ conc = [NoConc EXCEPT !.start = srv]
    /\ hist = NoHist
    /\ createdAs = [n \in OAuth2Names |-> "none"]
    /\ secretReqs = <<>>
    /\ call = NoCallInfo
    /\ tfOAuth2 = NoOAuth2State
    /\ tfGroup = NoGroupState
    /\ tfPerson = NoPersonState
    /\ tfServiceAccount = NoServiceAccountState
    /\ ret = NoRet
    /\ entry = NoAttrs
    /\ viewKey = "name"

NextScopeMapRace ==
    \E p \in Procs :
        \/ ConcSetOAuth2ScopeMap(p)
        \/ ConcDeleteOAuth2ScopeMap(p)
        \/ ServerReceives(p, RaceModes)
        \/ Returns(p)

SpecScopeMapRace == InitRace(ScopeMapServers) /\ [][NextScopeMapRace]_vars

\* the mapping of a group on a client: whether there is one, and its scopes
Mapping(s, rsName, groupName) ==
    IF groupName \in DOMAIN s.oauth2[rsName].scopemap
    THEN [set |-> TRUE, scopes |-> s.oauth2[rsName].scopemap[groupName]]
    ELSE [set |-> FALSE, scopes |-> <<>>]

\* the mapping a scope-map call asks for
RequestedMapping(c) ==
    IF c.op = "SetOAuth2ScopeMap" THEN [set |-> TRUE, scopes |-> c.list.elems]
    ELSE [set |-> FALSE, scopes |-> <<>>]

\* the calls for a group of a client that the server has answered with success
Succeeded(rsName, groupName) ==
    {p \in Procs : /\ conc.procs[p].pc \in {"answered", "done"}
                   /\ conc.procs[p].status \in 200..299
                   /\ conc.procs[p].name = rsName
                   /\ conc.procs[p].group = groupName}

\* C21: scope-map calls for different groups of one client do not conflict:
\* however the two calls interleave, the mapping of a group is the one it had
\* before the calls while no call for that group has succeeded, and is what
\* the call for that group asked for once that call, the only one for the
\* group, has succeeded; so a call for one group never changes the mapping of
\* the other.
C21_ScopeMapCallsIndependent ==
    \A rsName \in OAuth2Names, groupName \in RaceGroups :
        /\ Succeeded(rsName, groupName) = {} =>
              Mapping(srv, rsName, groupName) = Mapping(conc.start, rsName, groupName)
        /\ \A p \in Succeeded(rsName, groupName) :
              Succeeded(rsName, groupName) = {p} =>
                  Mapping(srv, rsName, groupName) = RequestedMapping(conc.procs[p])

\* both calls have returned without error, a set for g and a delete for h,
\* the server having received the delete first, and g was mapped to other
\* scopes and h was mapped before
C21_Witness ==
    /\ \A p \in Procs : conc.procs[p].pc = "done" /\ ~IsErr(conc.procs[p].err)
    /\ conc.procs[1].op = "SetOAuth2ScopeMap" /\ conc.procs[1].group = <<"g">>
    /\ conc.procs[2].op = "DeleteOAuth2ScopeMap" /\ conc.procs[2].group = <<"h">>
    /\ conc.received = <<2, 1>>
    /\ Mapping(conc.start, <<"c">>, <<"h">>).set
    /\ Mapping(conc.start, <<"c">>, <<"g">>) # Mapping(srv, <<"c">>, <<"g">>)
    /\ ~Mapping(srv, <<"c">>, <<"h">>).set

\* servers holding the group g without members or with the member m, and the
\* empty server
GroupRaceServers ==
    LET a == CreateGroup(World(InitSrv), NoFault, <<"g">>, <<"d">>).w
        b == AddGroupMembers(a, NoFault, <<"g">>, Slice(<<<<"m">>>>)).w
    IN {InitSrv, a.srv, b.srv}

NextGroupRace ==
    \E p \in Procs :
        \/ ConcUpdateGroup(p)
        \/ ConcAddGroupMembers(p)
        \/ ConcRemoveGroupMembers(p)
        \/ ServerReceives(p, RaceModes)
        \/ Returns(p)

SpecGroupRace == InitRace(GroupRaceServers) /\ [][NextGroupRace]_vars

Elems(seq) == {seq[i] : i \in DOMAIN seq}

\* the members of a group on a server, as a set
MemberSet(s, id) == Elems(StoredMembers(s.group[id]))

\* what a membership call asks of a member set: Update replaces it unless its
\* members are nil, Add adds to it, Remove takes away from it
AppliedTo(members, c) ==
    CASE c.op = "UpdateGroup" -> IF c.list.isNil THEN members ELSE Elems(c.list.elems)
      [] c.op = "AddGroupMembers" -> members \cup Elems(c.list.elems)
      [] c.op = "RemoveGroupMembers" -> members \ Elems(c.list.elems)

\* the calls the server received and answered with success, in that order
Accepted == SelectSeq(conc.received, LAMBDA p : conc.procs[p].status \in 200..299)

RECURSIVE AppliedInOrder(_, _)
AppliedInOrder(members, ps) ==
    IF ps = <<>> THEN members
    ELSE AppliedInOrder(AppliedTo(members, conc.procs[Head(ps)]), Tail(ps))

\* C22: concurrent membership calls on one group are not coordinated, the
\* last write wins: the member set of the group is what the calls the server
\* has received make of the set before them, applied in the order received;
\* so when an UpdateGroup with non-nil members M arrived last the group has
\* exactly the members M, whatever AddGroupMembers added before it.
C22_LastWriteWins ==
    \A id \in GroupNames :
        /\ MemberSet(srv, id) = AppliedInOrder(MemberSet(conc.start, id), Accepted)
        /\ Accepted # <<>> =>
              LET c == conc.procs[Accepted[Len(Accepted)]]
              IN c.op = "UpdateGroup" /\ ~c.list.isNil =>
                     StoredMembers(srv.group[id]) = c.list.elems

\* both calls have returned without error: AddGroupMembers(g, [n]) was received
\* first and UpdateGroup(g, "", [m]) last, and the group is left with m alone
C22_Witness ==
    /\ \A p \in Procs : conc.procs[p].pc = "done" /\ ~IsErr(conc.procs[p].err)
    /\ conc.procs[1].op = "UpdateGroup" /\ conc.procs[1].list = Slice(<<<<"m">>>>)
    /\ conc.procs[2].op = "AddGroupMembers" /\ conc.procs[2].list = Slice(<<<<"n">>>>)
    /\ conc.received = <<2, 1>>
    /\ StoredMembers(srv.group[<<"g">>]) = <<<<"m">>>>

\* the other order: the update was received first, and the member added after
\* it is kept
C22_WitnessAddLast ==
    /\ \A p \in Procs : conc.procs[p].pc = "done" /\ ~IsErr(conc.procs[p].err)
    /\ conc.procs[1].op = "UpdateGroup" /\ conc.procs[1].list = Slice(<<<<"m">>>>)
    /\ conc.procs[2].op = "AddGroupMembers" /\ conc.procs[2].list = Slice(<<<<"n">>>>)
    /\ conc.received = <<1, 2>>
    /\ MemberSet(srv, <<"g">>) = {<<"m">>, <<"n">>}

----------------------------------------------------------------------------
(* The handlers of the resources observed with what they were given (plan,  *)
(* prior state) and the exchanges they made                                 *)

\* a handler h returns: the server it leaves, its diagnostic, its exchanges
Handles(op, name, args, h) ==
    /\ srv' = h.w.srv
    /\ secretReqs' = SecretRequests(h.w.log)
    /\ call' = [args |-> args, exch |-> Exchanges(h.w.log), n |-> call.n]
    /\ ret' = Ret(op, name, h.diag, EmptyStr)
    /\ UNCHANGED <<hist, createdAs, viewVars, conc>>

\* what a handler was given: the plan (Create, Update) and the prior state
Given(plan, state) == [plan |-> plan, state |-> state]

\* Create and Update set the state only when they add no error diagnostic
StateAfter(h, state) == IF IsErr(h.diag) THEN state ELSE h.state

TfPersonCreate(modes) ==
    /\ ~tfPerson.present
    /\ \E plan \in PersonPlans, ft \in Faults(modes, 4) :
           Bind(PersonCreate(World(srv), ft, plan),
                LAMBDA h :
           /\ Handles("personResource.Create", plan.ID.v, Given(plan, tfPerson), h)
           /\ tfPerson' = StateAfter(h, tfPerson)
           /\ UNCHANGED <<tfOAuth2, tfGroup, tfServiceAccount>>)

TfPersonRead(modes) ==
    /\ tfPerson.present
    /\ \E ft \in Faults(modes, 1) :
           Bind(PersonRead(World(srv), ft, tfPerson),
                LAMBDA h :
           /\ Handles("personResource.Read", tfPerson.ID.v, Given(tfPerson, tfPerson), h)
           /\ tfPerson' = h.state
           /\ UNCHANGED <<tfOAuth2, tfGroup, tfServiceAccount>>)

\* the plan of an Update keeps the id (RequiresReplace); its computed
\* credential_reset_token is not known yet, here null
TfPersonUpdate(modes) ==
    /\ tfPerson.present
    /\ \E plan \in PersonPlans, ft \in Faults(modes, 4) :
           /\ plan.ID = tfPerson.ID
           /\ Bind(PersonUpdate(World(srv), ft, plan, tfPerson),
                   LAMBDA h :
              /\ Handles("personResource.Update", plan.ID.v, Given(plan, tfPerson), h)
              /\ tfPerson' = StateAfter(h, tfPerson)
              /\ UNCHANGED <<tfOAuth2, tfGroup, tfServiceAccount>>)

TfPersonDelete(modes) ==
    /\ tfPerson.present
    /\ \E ft \in Faults(modes, 1) :
           Bind(PersonDelete(World(srv), ft, tfPerson),
                LAMBDA h :
           /\ Handles("personResource.Delete", tfPerson.ID.v, Given(tfPerson, tfPerson), h)
           /\ tfPerson' = h.state
           /\ UNCHANGED <<tfOAuth2, tfGroup, tfServiceAccount>>)

TfPersonImportState ==
    /\ ~tfPerson.present
    /\ \E id \in PersonNames :
           Bind(PersonImportState(World(srv), id),
                LAMBDA h :
           /\ Handles("personResource.ImportState", id, Given(tfPerson, tfPerson), h)
           /\ tfPerson' = h.state
           /\ UNCHANGED <<tfOAuth2, tfGroup, tfServiceAccount>>)

\* what one exchange of a handler can do besides the server's own answer
HandlerModes == {"ok", "transport", "404", "500"}

NextPerson ==
    \/ TfPersonCreate(HandlerModes)
    \/ TfPersonRead(HandlerModes)
    \/ TfPersonUpdate(HandlerModes)
    \/ TfPersonDelete(HandlerModes)
    \/ TfPersonImportState

SpecPerson == InitClient /\ [][NextPerson]_vars

\* the last handler sent a request to an endpoint
Requested(ep) == \E i \in DOMAIN call.exch : call.exch[i].ep = ep

SetsPassword == Requested("/v1/person/{id}/_credential/_update_intent")

MakesResetToken == Requested("/v1/person/{id}/_credential/_update_intent/{ttl}")

\* the plan the last handler was given has a password and asks for a token
ConflictingPlan ==
    ~call.args.plan.Password.null /\ call.args.plan.GenerateCredentialResetToken

ConflictRejected ==
    /\ IsErr(ret.err)
    /\ ret.err.wraps[1] = "Conflicting Configuration"
    /\ call.exch = <<>>

\* C23: password and generate_credential_reset_token are mutually exclusive
\* on kanidm_person: no Create and no Update calls both SetPersonPassword and
\* CreatePersonCredentialResetToken, and a plan with a password and
\* generate_credential_reset_token = true is rejected with "Conflicting
\* Configuration" before any request is sent.
C23_PasswordAndResetTokenExclusive ==
    ret.op \in {"personResource.Create", "personResource.Update"} =>
        /\ ~(SetsPassword /\ MakesResetToken)
        /\ ConflictingPlan => ConflictRejected

\* what Create alone does: the conflicting plan is rejected before any request
C23_CreateRejectsConflict ==
    ret.op = "personResource.Create" =>
        /\ ~(SetsPassword /\ MakesResetToken)
        /\ ConflictingPlan => ConflictRejected

\* an Update of a person created with neither, given a plan with a password
\* and generate_credential_reset_token = true, has sent both requests and
\* added no diagnostic
C23_UpdateDoesBoth ==
    /\ ret.op = "personResource.Update"
    /\ call.args.state.Password.null /\ ~call.args.state.GenerateCredentialResetToken
    /\ ConflictingPlan
    /\ SetsPassword /\ MakesResetToken
    /\ ~IsErr(ret.err)

TfGroupCreate(modes) ==
    /\ ~tfGroup.present
    /\ \E plan \in GroupPlans, order \in Orders(MemberIDs), ft \in Faults(modes, 3) :
           Bind(GroupCreate(World(srv), ft, plan, order),
                LAMBDA h :
           /\ Handles("groupResource.Create", plan.ID.v, Given(plan, tfGroup), h)
           /\ tfGroup' = StateAfter(h, tfGroup)
           /\ UNCHANGED <<tfOAuth2, tfPerson, tfServiceAccount>>)

TfGroupRead(modes) ==
    /\ tfGroup.present
    /\ \E ft \in Faults(modes, 1) :
           Bind(GroupRead(World(srv), ft, tfGroup),
                LAMBDA h :
           /\ Handles("groupResource.Read", tfGroup.ID.v, Given(tfGroup, tfGroup), h)
           /\ tfGroup' = h.state
           /\ UNCHANGED <<tfOAuth2, tfPerson, tfServiceAccount>>)

TfGroupUpdate(modes) ==
    /\ tfGroup.present
    /\ \E plan \in GroupPlans, order \in Orders(MemberIDs), ft \in Faults(modes, 2) :
           /\ plan.ID = tfGroup.ID
           /\ Bind(GroupUpdate(World(srv), ft, plan, tfGroup, order),
                   LAMBDA h :
              /\ Handles("groupResource.Update", plan.ID.v, Given(plan, tfGroup), h)
              /\ tfGroup' = StateAfter(h, tfGroup)
              /\ UNCHANGED <<tfOAuth2, tfPerson, tfServiceAccount>>)

TfGroupDelete(modes) ==
    /\ tfGroup.present
    /\ \E ft \in Faults(modes, 1) :
           Bind(GroupDelete(World(srv), ft, tfGroup),
                LAMBDA h :
           /\ Handles("groupResource.Delete", tfGroup.ID.v, Given(tfGroup, tfGroup), h)
           /\ tfGroup' = h.state
           /\ UNCHANGED <<tfOAuth2, tfPerson, tfServiceAccount>>)

TfGroupImportState ==
    /\ ~tfGroup.present
    /\ \E id \in GroupNames :
           Bind(GroupImportState(World(srv), id),
                LAMBDA h :
           /\ Handles("groupResource.ImportState", id, Given(tfGroup, tfGroup), h)
           /\ tfGroup' = h.state
           /\ UNCHANGED <<tfOAuth2, tfPerson, tfServiceAccount>>)

NextGroupResource ==
    \/ TfGroupCreate(HandlerModes)
    \/ TfGroupRead(HandlerModes)
    \/ TfGroupUpdate(HandlerModes)
    \/ TfGroupDelete(HandlerModes)
    \/ TfGroupImportState

SpecGroupResource == InitClient /\ [][NextGroupResource]_vars

\* the members of a plan or a state: a null set has none
TfMembers(model) == IF model.Members.null THEN {} ELSE model.Members.elems

\* the last handler was a Create or an Update of the group that added no
\* error diagnostic
GroupApplied ==
    /\ ret.op \in {"groupResource.Create", "groupResource.Update"}
    /\ ~IsErr(ret.err)

\* C24: members are managed as a complete set: after every successful Create
\* or Update of kanidm_group the member set on the server and the members
\* written to state are exactly the members of the plan, also when the plan
\* has members removed or empty while the group has members.
C24_MembersAreThePlanned ==
    GroupApplied =>
        /\ MemberSet(srv, ret.name) = TfMembers(call.args.plan)
        /\ TfMembers(tfGroup) = TfMembers(call.args.plan)

\* the same for the plans that have the members attribute
C24_PlannedMembersReplace ==
    GroupApplied /\ ~call.args.plan.Members.null =>
        /\ MemberSet(srv, ret.name) = TfMembers(call.args.plan)
        /\ TfMembers(tfGroup) = TfMembers(call.args.plan)

\* an Update whose plan has members removed, of a group with members in
\* state and on the server, succeeded and left the members where they were
C24_RemovedMembersKept ==
    /\ ret.op = "groupResource.Update"
    /\ ~IsErr(ret.err)
    /\ call.args.plan.Members.null
    /\ TfMembers(call.args.state) = MemberIDs
    /\ call.exch[1].payload = AttrsPayload(UpdateGroupAttrs(PlanDescription(call.args.plan), NilSlice))
    /\ MemberSet(srv, ret.name) = MemberIDs
    /\ tfGroup.Members = TfSet(MemberIDs)

\* an Update whose plan has the empty set has emptied a group with members
C24_EmptySetEmpties ==
    /\ ret.op = "groupResource.Update"
    /\ ~IsErr(ret.err)
    /\ call.args.plan.Members = TfSet({})
    /\ TfMembers(call.args.state) = MemberIDs
    /\ MemberSet(srv, ret.name) = {}
    /\ tfGroup.Members = TfSet({})

TfOAuth2Create(modes, plans, groups) ==
    /\ ~tfOAuth2.present
    /\ \E plan \in plans, order \in Orders(groups),
          ft \in Faults(modes, 4 + Cardinality(groups)) :
           Bind(OAuth2BasicCreate(World(srv), ft, plan, order),
                LAMBDA h :
           /\ SecretsInBound(h.w.srv)
           /\ Handles("oauth2BasicResource.Create", plan.Name.v, Given(plan, tfOAuth2), h)
           /\ tfOAuth2' = StateAfter(h, tfOAuth2)
           /\ UNCHANGED <<tfGroup, tfPerson, tfServiceAccount>>)

TfOAuth2Read(modes) ==
    /\ tfOAuth2.present
    /\ \E ft \in Faults(modes, 2) :
           Bind(OAuth2BasicRead(World(srv), ft, tfOAuth2),
                LAMBDA h :
           /\ Handles("oauth2BasicResource.Read", tfOAuth2.Name.v, Given(tfOAuth2, tfOAuth2), h)
           /\ tfOAuth2' = h.state
           /\ UNCHANGED <<tfGroup, tfPerson, tfServiceAccount>>)

\* the plan of an Update keeps the name (RequiresReplace); its computed
\* client_secret is not known yet, here null
TfOAuth2Update(modes, plans, groups) ==
    /\ tfOAuth2.present
    /\ \E plan \in plans, order \in Orders(groups),
          ft \in Faults(modes, 2 + 2 * Cardinality(groups)) :
           /\ plan.Name = tfOAuth2.Name
           /\ Bind(OAuth2BasicUpdate(World(srv), ft, plan, tfOAuth2, order),
                   LAMBDA h :
              /\ Handles("oauth2BasicResource.Update", plan.Name.v, Given(plan, tfOAuth2), h)
              /\ tfOAuth2' = StateAfter(h, tfOAuth2)
              /\ UNCHANGED <<tfGroup, tfPerson, tfServiceAccount>>)

TfOAuth2Delete(modes) ==
    /\ tfOAuth2.present
    /\ \E ft \in Faults(modes, 1) :
           Bind(OAuth2BasicDelete(World(srv), ft, tfOAuth2),
                LAMBDA h :
           /\ Handles("oauth2BasicResource.Delete", tfOAuth2.Name.v, Given(tfOAuth2, tfOAuth2), h)
           /\ tfOAuth2' = h.state
           /\ UNCHANGED <<tfGroup, tfPerson, tfServiceAccount>>)

TfOAuth2ImportState ==
    /\ ~tfOAuth2.present
    /\ \E id \in OAuth2Names :
           Bind(OAuth2BasicImportState(World(srv), id),
                LAMBDA h :
           /\ Handles("oauth2BasicResource.ImportState", id, Given(tfOAuth2, tfOAuth2), h)
           /\ tfOAuth2' = h.state
           /\ UNCHANGED <<tfGroup, tfPerson, tfServiceAccount>>)

\* the secret of a client is regenerated outside Terraform
RegeneratedElsewhere ==
    /\ \E name \in OAuth2Names :
           Bind(RegenerateOAuth2BasicSecret(World(srv), NoFault, name),
                LAMBDA r :
           /\ ~IsErr(r.err)
           /\ SecretsInBound(r.w.srv)
           /\ srv' = r.w.srv
           /\ ret' = Ret("RegenerateOAuth2BasicSecret", name, r.err, r.val))
    /\ UNCHANGED <<hist, createdAs, secretReqs, call, conc, viewVars, tfVars>>

NextOAuth2Import ==
    \/ TfOAuth2ImportState
    \/ TfOAuth2Read(HandlerModes)
    \/ TfOAuth2Delete(HandlerModes)
    \/ RegeneratedElsewhere

SpecOAuth2Import == InitOAuth2Resource /\ [][NextOAuth2Import]_vars

\* the state ImportState leaves for a client
Imported(name) == OAuth2BasicImportState(World(InitSrv), name).state

\* the last handler was a Read of a state that had no client_secret and it
\* found the client, a confidential one
ReadWithoutSecret ==
    /\ ret.op = "oauth2BasicResource.Read"
    /\ call.args.state.ClientSecret.null
    /\ call.exch[1].status \in 200..299
    /\ ~IsErr(ret.err)

ScopeMapPlans ==
    {[present |-> TRUE, Name |-> TfString(n), DisplayName |-> TfString(<<"d">>),
      Origin |-> TfString(<<"a", "/">>), RedirectURIs |-> TfNullList,
      ScopeMaps |-> TfScopeMaps(maps), ClientSecret |-> TfNullString] :
        n \in OAuth2Names,
        maps \in UNION {[gs -> {<<<<"o">>>>, <<<<"p">>>>}] : gs \in SUBSET RaceGroups}}

ScopeMapModes == {"ok", "500"}

NextScopeMapUpdate ==
    \/ TfOAuth2Create(ScopeMapModes, ScopeMapPlans, RaceGroups)
    \/ TfOAuth2Update(ScopeMapModes, ScopeMapPlans, RaceGroups)

SpecScopeMapUpdate == InitOAuth2Resource /\ [][NextScopeMapUpdate]_vars

\* the exchanges of the last handler with the scope-map endpoint, by method
ScopeMapRequests(method) ==
    {i \in DOMAIN call.exch : /\ call.exch[i].ep = "/v1/oauth2/{name}/_scopemap/{group}"
                              /\ call.exch[i].method = method}

\* the last handler was an Update of the client that added no error diagnostic
OAuth2Updated == ret.op = "oauth2BasicResource.Update" /\ ~IsErr(ret.err)

\* the last Update deleted exactly the scope maps of the groups in state that
\* the plan does not have, each once
DeletedTheGone ==
    LET gone == (DOMAIN call.args.state.ScopeMaps.maps) \ (DOMAIN call.args.plan.ScopeMaps.maps)
    IN /\ {call.exch[i].group : i \in ScopeMapRequests("DELETE")} = gone
       /\ Cardinality(ScopeMapRequests("DELETE")) = Cardinality(gone)

\* the last Update set the scope map of every group of the plan, each once,
\* with the planned scopes
SetThePlanned ==
    LET new == call.args.plan.ScopeMaps.maps
    IN /\ {call.exch[i].group : i \in ScopeMapRequests("POST")} = DOMAIN new
       /\ Cardinality(ScopeMapRequests("POST")) = Cardinality(DOMAIN new)
       /\ \A i \in ScopeMapRequests("POST") :
              call.exch[i].payload = ListPayload(Slice(new[call.exch[i].group]))

DeletesBeforeSets ==
    \A i \in ScopeMapRequests("DELETE"), j \in ScopeMapRequests("POST") : i < j

\* C26: scope-map reconciliation in the Update of kanidm_oauth2_basic: when
\* the server's scope maps of the client are those of the state, a successful
\* Update leaves them exactly the plan's: it deletes the map of every group in
\* state but not in the plan and of no other group, sets the map of every
\* group of the plan with the planned scopes, and deletes before it sets.
C26_ScopeMapsReconciled ==
    [][OAuth2Updated' =>
          /\ DeletedTheGone'
          /\ SetThePlanned'
          /\ DeletesBeforeSets'
          /\ srv.oauth2[ret'.name].scopemap = call'.args.state.ScopeMaps.maps =>
                srv'.oauth2[ret'.name].scopemap = call'.args.plan.ScopeMaps.maps]_vars

\* an Update from the maps {g: [o], h: [o]} to the plan {h: [p]}: the map of g
\* was deleted, then the map of h set, and the server holds the plan's maps
C26_Witness ==
    /\ OAuth2Updated
    /\ call.args.state.ScopeMaps.maps = [g \in RaceGroups |-> <<<<"o">>>>]
    /\ call.args.plan.ScopeMaps.maps = [g \in {<<"h">>} |-> <<<<"p">>>>]
    /\ call.exch[2].method = "DELETE" /\ call.exch[2].group = <<"g">>
    /\ call.exch[3].method = "POST" /\ call.exch[3].group = <<"h">>
    /\ srv.oauth2[ret.name].scopemap = [g \in {<<"h">>} |-> <<<<"p">>>>]

ServiceAccountPlans ==
    {[present |-> TRUE, ID |-> TfString(id), APIToken |-> TfNullString] :
        id \in ServiceAccountNames}

TfServiceAccountCreate(modes) ==
    /\ ~tfServiceAccount.present
    /\ \E plan \in ServiceAccountPlans, ft \in Faults(modes, 2) :
           Bind(ServiceAccountCreate(World(srv), ft, plan),
                LAMBDA h :
           /\ Handles("serviceAccountResource.Create", plan.ID.v,
                      Given(plan, tfServiceAccount), h)
           /\ tfServiceAccount' = StateAfter(h, tfServiceAccount)
           /\ UNCHANGED <<tfOAuth2, tfGroup, tfPerson>>)

TfServiceAccountRead(modes) ==
    /\ tfServiceAccount.present
    /\ \E ft \in Faults(modes, 1) :
           Bind(ServiceAccountRead(World(srv), ft, tfServiceAccount),
                LAMBDA h :
           /\ Handles("serviceAccountResource.Read", tfServiceAccount.ID.v,
                      Given(tfServiceAccount, tfServiceAccount), h)
           /\ tfServiceAccount' = h.state
           /\ UNCHANGED <<tfOAuth2, tfGroup, tfPerson>>)

\* the plan of an Update keeps the id (RequiresReplace); its computed
\* api_token is not known yet, here null
TfServiceAccountUpdate ==
    /\ tfServiceAccount.present
    /\ \E plan \in ServiceAccountPlans :
           /\ plan.ID = tfServiceAccount.ID
           /\ Bind(ServiceAccountUpdate(World(srv), plan, tfServiceAccount),
                   LAMBDA h :
              /\ Handles("serviceAccountResource.Update", plan.ID.v,
                         Given(plan, tfServiceAccount), h)
              /\ tfServiceAccount' = StateAfter(h, tfServiceAccount)
              /\ UNCHANGED <<tfOAuth2, tfGroup, tfPerson>>)

TfServiceAccountDelete(modes) ==
    /\ tfServiceAccount.present
    /\ \E ft \in Faults(modes, 1) :
           Bind(ServiceAccountDelete(World(srv), ft, tfServiceAccount),
                LAMBDA h :
           /\ Handles("serviceAccountResource.Delete", tfServiceAccount.ID.v,
                      Given(tfServiceAccount, tfServiceAccount), h)
           /\ tfServiceAccount' = h.state
           /\ UNCHANGED <<tfOAuth2, tfGroup, tfPerson>>)

TfServiceAccountImportState ==
    /\ ~tfServiceAccount.present
    /\ \E id \in ServiceAccountNames :
           Bind(ServiceAccountImportState(World(srv), id),
                LAMBDA h :
           /\ Handles("serviceAccountResource.ImportState", id,
                      Given(tfServiceAccount, tfServiceAccount), h)
           /\ tfServiceAccount' = h.state
           /\ UNCHANGED <<tfOAuth2, tfGroup, tfPerson>>)

----------------------------------------------------------------------------
(* Read and Delete of the four resources, each imported against a server    *)
(* that may or may not hold the object                                      *)

\* what the request of a Read or a Delete can meet besides the server's own
\* answer
VanishModes == {"ok", "transport", "401", "403", "404", "500", "200:malformed"}

NextReadDelete ==
    \/ TfPersonImportState
    \/ TfPersonRead(VanishModes)
    \/ TfPersonDelete(VanishModes)
    \/ TfServiceAccountImportState
    \/ TfServiceAccountRead(VanishModes)
    \/ TfServiceAccountDelete(VanishModes)
    \/ TfGroupImportState
    \/ TfGroupRead(VanishModes)
    \/ TfGroupDelete(VanishModes)
    \/ TfOAuth2ImportState
    \/ TfOAuth2Read(VanishModes)
    \/ TfOAuth2Delete(VanishModes)

SpecReadDelete == InitClient /\ [][NextReadDelete]_vars

\* the state of a resource, by the handler that acted on it
StateOf(op) ==
    CASE op \in {"personResource.Read", "personResource.Delete"} -> tfPerson
      [] op \in {"serviceAccountResource.Read", "serviceAccountResource.Delete"} ->
            tfServiceAccount
      [] op \in {"groupResource.Read", "groupResource.Delete"} -> tfGroup
      [] op \in {"oauth2BasicResource.Read", "oauth2BasicResource.Delete"} -> tfOAuth2

ResourceReads ==
    {"personResource.Read", "serviceAccountResource.Read", "groupResource.Read",
     "oauth2BasicResource.Read"}

ResourceDeletes ==
    {"personResource.Delete", "serviceAccountResource.Delete", "groupResource.Delete",
     "oauth2BasicResource.Delete"}

\* the error of the client call of the last handler, by its first exchange:
\* none, one matching ErrNotFound, or another (no response, another error
\* status, a body that is not JSON)
ClientCallOutcome ==
    LET e == call.exch[1]
    IN IF e.status = 404 THEN "ErrNotFound"
       ELSE IF e.status \notin 200..299 THEN "other"
       ELSE IF e.method = "GET" /\ e.reply = Malformed THEN "other"
       ELSE "none"

\* C27: Read handles a vanished resource: for each of the person, service
\* account, group and OAuth2 basic resources, when the client's Get returns
\* an error matching ErrNotFound the resource is removed from state and no
\* error diagnostic is added; for every other Get error an error diagnostic
\* is added and the state is left as it was.
C27_ReadOfVanishedResource ==
    ret.op \in ResourceReads =>
        /\ ClientCallOutcome = "ErrNotFound" =>
              ~IsErr(ret.err) /\ ~StateOf(ret.op).present
        /\ ClientCallOutcome = "other" =>
              IsErr(ret.err) /\ StateOf(ret.op) = call.args.state

\* a Read of a group the server does not hold removed it from state, without
\* a diagnostic
C27_Witness ==
    /\ ret.op = "groupResource.Read"
    /\ ~srv.group[ret.name].exists
    /\ call.exch[1].status = 404
    /\ call.args.state.present
    /\ ~tfGroup.present
    /\ ~IsErr(ret.err)

\* a Read of a service account answered 403 added a diagnostic and kept the state
C27_WitnessOtherError ==
    /\ ret.op = "serviceAccountResource.Read"
    /\ call.exch[1].status = 403
    /\ IsErr(ret.err)
    /\ tfServiceAccount = call.args.state
    /\ tfServiceAccount.present

\* C28: Delete is idempotent at the provider layer: for each of the person,
\* service account, group and OAuth2 basic resources, a Delete whose client
\* call fails with an error matching ErrNotFound, wrapped as the client
\* returns it, adds no error diagnostic and the resource leaves the state, so
\* deleting a resource that is already gone succeeds; any other client error
\* adds an error diagnostic.
C28_DeleteIdempotent ==
    ret.op \in ResourceDeletes =>
        /\ ClientCallOutcome = "ErrNotFound" =>
              ~IsErr(ret.err) /\ ~StateOf(ret.op).present
        /\ ClientCallOutcome = "none" =>
              ~IsErr(ret.err) /\ ~StateOf(ret.op).present
        /\ ClientCallOutcome = "other" =>
              IsErr(ret.err) /\ StateOf(ret.op) = call.args.state

\* the second Delete of a person: the server, which held the person at the
\* start as it still holds the group, answered 404 itself after an earlier
\* Delete, and this Delete completed without a diagnostic
C28_Witness ==
    /\ ret.op = "personResource.Delete"
    /\ ~srv.person[ret.name].exists
    /\ srv.group[<<"g">>].exists
    /\ call.exch[1].method = "DELETE"
    /\ call.exch[1].status = 404
    /\ call.args.state.present
    /\ ~tfPerson.present
    /\ ~IsErr(ret.err)

\* a Delete of an OAuth2 client answered 500 added a diagnostic
C28_WitnessOtherError ==
    /\ ret.op = "oauth2BasicResource.Delete"
    /\ call.exch[1].status = 500
    /\ IsErr(ret.err)
    /\ tfOAuth2.present

----------------------------------------------------------------------------
(* Read and Update of an OAuth2 basic client and of a service account whose *)
(* states hold the secret and the token of their creation                   *)

NextFrozenSecrets ==
    \/ TfOAuth2Create({"ok"}, OAuth2Plans, ScopeGroups)
    \/ TfOAuth2Read(HandlerModes)
    \/ TfOAuth2Update(HandlerModes, OAuth2Plans, ScopeGroups)
    \/ RegeneratedElsewhere
    \/ TfServiceAccountCreate({"ok"})
    \/ TfServiceAccountRead(HandlerModes)
    \/ TfServiceAccountUpdate

SpecFrozenSecrets == InitOAuth2Resource /\ [][NextFrozenSecrets]_vars

\* the last handler made a request for a secret or a token: a fetch or a
\* regeneration of the client secret, or the minting of an API token
AsksForSecret ==
    \/ Requested("/v1/oauth2/{name}/_basic_secret")
    \/ Requested("/v1/service_account/{id}/_api_token")

\* C29: creation-time secrets are frozen in state: once the state of a
\* kanidm_oauth2_basic holds a non-empty client_secret, or the state of a
\* kanidm_service_account an api_token, a Read or an Update that keeps the
\* resource in state leaves that value as it was and sends no request for a
\* secret (fetch, regenerate) or a token (mint), also when the secret on the
\* server has been regenerated since.
C29_CreationSecretsFrozen ==
    [][/\ (/\ ret'.op \in {"oauth2BasicResource.Read", "oauth2BasicResource.Update"}
           /\ tfOAuth2.present
           /\ tfOAuth2.ClientSecret.v # EmptyStr)
          => /\ ~AsksForSecret'
             /\ tfOAuth2'.present => tfOAuth2'.ClientSecret = tfOAuth2.ClientSecret
       /\ (/\ ret'.op \in {"serviceAccountResource.Read", "serviceAccountResource.Update"}
           /\ tfServiceAccount.present
           /\ tfServiceAccount.APIToken.v # EmptyStr)
          => /\ ~AsksForSecret'
             /\ tfServiceAccount'.present =>
                   tfServiceAccount'.APIToken = tfServiceAccount.APIToken]_vars

\* an Update of a client whose secret was regenerated on the server after
\* its creation: the state still holds the secret of the creation
C29_Witness ==
    /\ ret.op = "oauth2BasicResource.Update"
    /\ ~IsErr(ret.err)
    /\ tfOAuth2.present
    /\ tfOAuth2.ClientSecret = TfString(SecretStr(1))
    /\ srv.oauth2[ret.name].secret = SecretStr(2)
    /\ ~AsksForSecret

\* a Read of a service account after its creation: the token of the creation
\* is still in state and no token was minted
C29_WitnessServiceAccount ==
    /\ ret.op = "serviceAccountResource.Read"
    /\ ~IsErr(ret.err)
    /\ tfServiceAccount.present
    /\ tfServiceAccount.APIToken = TfString(TokenStr)
    /\ ~AsksForSecret

----------------------------------------------------------------------------
(* The description of a kanidm_group in state, under SpecGroupResource     *)

\* C30: the state written for the optional description of a kanidm_group
\* matches the plan: after every successful Create or Update the description
\* in state is the planned one, null when the plan omits it, and after an
\* Update whose plan removes a description the old one is gone.
C30_DescriptionAsPlanned ==
    GroupApplied => tfGroup.Description = call.args.plan.Description

\* the same for the plans that have a description
C30_PlannedDescriptionWritten ==
    GroupApplied /\ ~call.args.plan.Description.null =>
        tfGroup.Description = call.args.plan.Description

\* Create, Read and Update write the description with types.StringValue: a
\* group they leave in state never has the null description
C30_DescriptionNeverNull ==
    /\ ret.op \in {"groupResource.Create", "groupResource.Read", "groupResource.Update"}
    /\ ~IsErr(ret.err)
    /\ tfGroup.present
    => ~tfGroup.Description.null

\* a Create whose plan omits the description wrote the empty string to state
C30_OmittedBecomesEmpty ==
    /\ ret.op = "groupResource.Create"
    /\ ~IsErr(ret.err)
    /\ call.args.plan.Description.null
    /\ tfGroup.Description = TfString(EmptyStr)

\* an Update whose plan removes the description sent no description and left
\* the old one on the server and in state
C30_RemovedDescriptionKept ==
    /\ ret.op = "groupResource.Update"
    /\ ~IsErr(ret.err)
    /\ call.args.plan.Description.null
    /\ call.args.state.Description = TfString(<<"d">>)
    /\ call.args.plan.Members.null
    /\ call.exch[1].payload = AttrsPayload(UpdateGroupAttrs(EmptyStr, NilSlice))
    /\ "description" \notin DOMAIN UpdateGroupAttrs(EmptyStr, NilSlice)
    /\ tfGroup.Description = TfString(<<"d">>)

====
